---- MODULE Spec2Model ----
(***************************************************************************)
(* The safety layer of clearcli: the path validator, the Linux trash       *)
(* provider, the quarantine store and the deletion orchestrator with its   *)
(* confirmation protocol.                                                  *)
(*                                                                         *)
(* A string is a sequence of one-character strings, so that the string     *)
(* operations of the source (includes, startsWith, split, replace) are     *)
(* computed as JavaScript computes them.                                   *)
(***************************************************************************)
EXTENDS Integers, Sequences, FiniteSets, TLC

VARIABLES
    platform,   \* process.platform
    fs,         \* the filesystem: resolved path -> [type, size]
    indexFile,  \* the quarantine index record: [state, entries]
    nextId,     \* the number of identifiers randomUUID() has handed out
    osTrash,    \* original paths taken by the desktop's own trash tools
    optSkip,    \* the callers' options objects: their skipConfirmation field
    now,        \* the clock, in days
    calls,      \* the number of calls made so far
    running,    \* the quarantine invocations in flight: process -> its position
    last        \* the last call: its name, inputs, trace and result

vars == <<platform, fs, indexFile, nextId, osTrash, optSkip, now, calls, running, last>>

----------------------------------------------------------------------------
(* Bounds of the model. *)

MaxPaths == 2      \* the longest list of paths handed to one call
MaxCalls == 2      \* the calls made to the orchestrator

----------------------------------------------------------------------------
(* Strings. *)

Digits == <<"0", "1", "2", "3", "4", "5", "6", "7", "8", "9">>

\* `${n}` for a natural number.
RECURSIVE NumStr(_)
NumStr(n) ==
    IF n < 10 THEN <<Digits[n + 1]>>
    ELSE NumStr(n \div 10) \o <<Digits[(n % 10) + 1]>>

\* s.startsWith(p)
StartsWith(s, p) == Len(p) <= Len(s) /\ \A j \in 1..Len(p) : s[j] = p[j]

\* p occurs in s at position i.
OccursAt(s, p, i) == \A j \in 1..Len(p) : s[i + j - 1] = p[j]

\* s.indexOf(p) searched from position i on, counted from 1; 0 when p does
\* not occur.
RECURSIVE IndexFrom(_, _, _)
IndexFrom(s, p, i) ==
    IF i + Len(p) - 1 > Len(s) THEN 0
    ELSE IF OccursAt(s, p, i) THEN i
    ELSE IndexFrom(s, p, i + 1)

IndexOf(s, p) == IndexFrom(s, p, 1)

\* s.includes(p)
Includes(s, p) == \E i \in 1..(Len(s) - Len(p) + 1) : OccursAt(s, p, i)

\* The position of the last c in s at or before i; 0 when there is none.
RECURSIVE LastIndexFrom(_, _, _)
LastIndexFrom(s, c, i) ==
    IF i = 0 THEN 0 ELSE IF s[i] = c THEN i ELSE LastIndexFrom(s, c, i - 1)

LastIndexOf(s, c) == LastIndexFrom(s, c, Len(s))

\* s.split(c).pop(): what follows the last c, the whole of s when there is none.
SplitPop(s, c) == SubSeq(s, LastIndexOf(s, c) + 1, Len(s))

\* s.replace(pat, rep) with a string pattern: the first occurrence only.
Replace(s, pat, rep) ==
    LET i == IndexOf(s, pat)
    IN  IF i = 0 THEN s
        ELSE SubSeq(s, 1, i - 1) \o rep \o SubSeq(s, i + Len(pat), Len(s))

\* s.split('/').filter(Boolean): the non-empty segments of s.
RECURSIVE Segments(_)
Segments(s) ==
    IF s = <<>> THEN <<>>
    ELSE LET i == IndexOf(s, <<"/">>)
             head == IF i = 0 THEN s ELSE SubSeq(s, 1, i - 1)
             rest == IF i = 0 THEN <<>> ELSE SubSeq(s, i + 1, Len(s))
         IN  IF head = <<>> THEN Segments(rest) ELSE <<head>> \o Segments(rest)

\* The segments with "." dropped and ".." taking back the segment before it.
RECURSIVE Normalize(_, _)
Normalize(segs, acc) ==
    IF segs = <<>> THEN acc
    ELSE IF Head(segs) = <<".">> THEN Normalize(Tail(segs), acc)
    ELSE IF Head(segs) = <<".", ".">>
         THEN Normalize(Tail(segs), IF acc = <<>> THEN acc ELSE SubSeq(acc, 1, Len(acc) - 1))
    ELSE Normalize(Tail(segs), Append(acc, Head(segs)))

RECURSIVE JoinSegments(_)
JoinSegments(segs) ==
    IF segs = <<>> THEN <<>> ELSE <<"/">> \o Head(segs) \o JoinSegments(Tail(segs))

\* An absolute path that resolve leaves as it is: no empty, "." or ".."
\* segment and no trailing slash.
IsResolved(p) ==
    \/ p = <<"/">>
    \/ /\ p # <<>>
       /\ p[1] = "/"
       /\ \A i \in 1..Len(p) :
            p[i] = "/" =>
                /\ i < Len(p)
                /\ p[i + 1] # "/"
                /\ ~(/\ p[i + 1] = "."
                     /\ \/ i + 1 = Len(p)
                        \/ p[i + 2] = "/"
                        \/ /\ p[i + 2] = "."
                           /\ (i + 2 = Len(p) \/ p[i + 3] = "/"))

\* path.resolve(p) of an absolute POSIX path.
resolve(p) ==
    IF IsResolved(p) THEN p
    ELSE LET segs == Normalize(Segments(p), <<>>)
         IN  IF segs = <<>> THEN <<"/">> ELSE JoinSegments(segs)

\* path.join(a, b) of an absolute POSIX path and a relative one.
join(a, b) == resolve(a \o <<"/">> \o b)

\* path.dirname(p) of an absolute POSIX path without a trailing slash.
dirname(p) ==
    LET i == LastIndexOf(p, "/")
    IN  IF i <= 1 THEN <<"/">> ELSE SubSeq(p, 1, i - 1)

\* path.basename(p) of a path without a trailing slash.
basename(p) == SplitPop(p, "/")

----------------------------------------------------------------------------
(* The filesystem. *)

Under(k, p) == k = p \/ StartsWith(k, IF p = <<"/">> THEN p ELSE p \o <<"/">>)

\* fs.access(p) resolves.
Exists(f, p) == resolve(p) \in DOMAIN f

IsDir(f, p) == Exists(f, p) /\ f[resolve(p)].type = "directory"

\* fs.rename(src, dst) of the resolved paths s and d.
RenameResolved(f, s, d) ==
    LET fits == /\ s \in DOMAIN f
                /\ dirname(d) \in DOMAIN f
                /\ f[dirname(d)].type = "directory"
                /\ (Under(d, s) => d = s)
                /\ (d \in DOMAIN f =>
                        /\ f[d].type = f[s].type
                        /\ (f[d].type = "directory" =>
                                \A k \in DOMAIN f : Under(k, d) => k = d))
        moved == {k \in DOMAIN f : Under(k, s)}
        kept == {k \in DOMAIN f : ~Under(k, s) /\ ~Under(k, d)}
        to(k) == d \o SubSeq(k, Len(s) + 1, Len(k))
    IN  IF ~fits THEN [ok |-> FALSE, fs |-> f]
        ELSE IF d = s THEN [ok |-> TRUE, fs |-> f]
        ELSE [ok |-> TRUE,
              fs |-> [k \in kept \cup {to(m) : m \in moved} |->
                        IF k \in kept THEN f[k]
                        ELSE f[CHOOSE m \in moved : to(m) = k]]]

\* fs.rename(src, dst): [ok, fs]. The whole subtree of src moves; a file
\* replaces a file that sits at dst.
Rename(f, src, dst) == RenameResolved(f, resolve(src), resolve(dst))

\* The ancestors of a resolved path, the path itself included.
RECURSIVE Ancestors(_)
Ancestors(p) == IF p = <<"/">> THEN {p} ELSE {p} \cup Ancestors(dirname(p))

\* fs.mkdir of the directories of `chain` that are missing.
MkdirChain(f, chain) ==
    IF \E k \in chain : k \in DOMAIN f /\ f[k].type = "file"
    THEN [ok |-> FALSE, fs |-> f]
    ELSE [ok |-> TRUE,
          fs |-> [k \in DOMAIN f \cup chain |->
                    IF k \in DOMAIN f THEN f[k]
                    ELSE [type |-> "directory", size |-> 0, busy |-> FALSE]]]

\* fs.mkdir(p, {recursive: true}): [ok, fs]. It fails on a file in the way.
Mkdir(f, p) == MkdirChain(f, Ancestors(resolve(p)))

\* fs.rm(p, {recursive: true, force: true}).
Rm(f, p) == [k \in {x \in DOMAIN f : ~Under(x, resolve(p))} |-> f[k]]

\* fs.writeFile of `size` bytes at the resolved path d.
WriteResolved(f, d, size) ==
    IF d \in DOMAIN f /\ f[d].type = "directory" THEN [ok |-> FALSE, fs |-> f]
    ELSE IF dirname(d) \notin DOMAIN f \/ f[dirname(d)].type # "directory"
    THEN [ok |-> FALSE, fs |-> f]
    ELSE [ok |-> TRUE,
          fs |-> [k \in DOMAIN f \cup {d} |->
                    IF k = d THEN [type |-> "file", size |-> size, busy |-> FALSE]
                    ELSE f[k]]]

\* fs.writeFile(p, data) of `size` bytes: [ok, fs].
WriteFile(f, p, size) == WriteResolved(f, resolve(p), size)

\* The sum of a function's values over a finite set.
RECURSIVE Sum(_, _)
Sum(g, S) ==
    IF S = {} THEN 0
    ELSE LET x == CHOOSE y \in S : TRUE IN g[x] + Sum(g, S \ {x})

\* The size of what sits at the resolved path r.
SizeResolved(f, r) ==
    IF r \notin DOMAIN f THEN 0
    ELSE IF f[r].type = "file" THEN f[r].size
    ELSE Sum([k \in DOMAIN f |-> f[k].size],
             {k \in DOMAIN f : Under(k, r) /\ f[k].type = "file"})

\* calculateSize / calculatePathSize: a file's size, a directory's recursive
\* sum of the sizes of the files below it, 0 for what cannot be read.
calculateSize(f, p) == SizeResolved(f, resolve(p))

----------------------------------------------------------------------------
(* The environment: the home directory, the quarantine root and the paths  *)
(* callers hand in.                                                        *)

\* os.homedir()
HomeDir == <<"/", "h">>

\* The rootDir the managers are constructed with.
RootDir == <<"/", "h", "/", "c">>

pA == <<"/", "h", "/", "a", ".", "t">>             \* a file with an extension
pF == <<"/", "h", "/", "d", ".", "y", "/", "f">>         \* a file in a directory whose name has a dot
pSys == <<"/", "u", "s", "r", "/", "b">>           \* a file under a protected root
pDots == <<"/", "h", "/", ".", ".", "/", "u", "s", "r", "/", "b">>   \* the same file, written through ".."
pHole == <<"/", "u", "s", "r", "/", "t", "m", "p", "/", "x">>    \* a file under a protected root, below a tmp directory
pNone == <<"/", "h", "/", "n">>            \* a path that does not exist

PathUniverse == {pA, pF, pSys, pDots, pHole, pNone}

Dir == [type |-> "directory", size |-> 0, busy |-> FALSE]
File(n, b) == [type |-> "file", size |-> n, busy |-> b]

\* The filesystem the program starts on.
InitialFs ==
    (<<"/">> :> Dir) @@ (HomeDir :> Dir) @@ (<<"/", "h", "/", "d", ".", "y">> :> Dir) @@
    (<<"/", "u", "s", "r">> :> Dir) @@ (<<"/", "u", "s", "r", "/", "t", "m", "p">> :> Dir) @@
    (pA :> File(13, FALSE)) @@ (pF :> File(14, TRUE)) @@
    (pSys :> File(1, FALSE)) @@ (pHole :> File(2, FALSE))

\* The elements of a sequence.
Range(s) == {s[i] : i \in 1..Len(s)}

\* A faulty variant of the filter that follows: it drops nothing.
KeepPaths(s, drop) == s

\* s.filter(path => !drop.includes(path))
RECURSIVE SelectPaths(_, _)
SelectPaths(s, drop) ==
    IF s = <<>> THEN <<>>
    ELSE IF Head(s) \in drop THEN SelectPaths(Tail(s), drop)
    ELSE <<Head(s)>> \o SelectPaths(Tail(s), drop)

----------------------------------------------------------------------------
(* The path safety validator. *)

\* The paths initializeSystemPaths() adds on macOS.
DarwinSystemPaths ==
    {<<"/", "S", "y", "s", "t", "e", "m">>, <<"/", "L", "i", "b", "r", "a", "r", "y">>, <<"/", "A", "p", "p", "l", "i", "c", "a", "t", "i", "o", "n", "s">>, <<"/", "b", "i", "n">>, <<"/", "s", "b", "i", "n">>, <<"/", "u", "s", "r">>, <<"/", "e", "t", "c">>,
     <<"/", "d", "e", "v">>, <<"/", "p", "r", "i", "v", "a", "t", "e", "/", "e", "t", "c">>, <<"/", "p", "r", "i", "v", "a", "t", "e", "/", "v", "a", "r", "/", "l", "o", "g">>}

\* The paths initializeSystemPaths() adds on Linux.
LinuxSystemPaths ==
    {<<"/", "b", "i", "n">>, <<"/", "s", "b", "i", "n">>, <<"/", "u", "s", "r">>, <<"/", "e", "t", "c">>, <<"/", "v", "a", "r", "/", "l", "o", "g">>, <<"/", "v", "a", "r", "/", "l", "i", "b">>, <<"/", "b", "o", "o", "t">>, <<"/", "d", "e", "v">>,
     <<"/", "p", "r", "o", "c">>, <<"/", "s", "y", "s">>, <<"/", "r", "o", "o", "t">>}

\* initializeSystemPaths(), on the platforms whose paths are POSIX paths.
initializeSystemPaths(pf) ==
    IF pf = "darwin" THEN DarwinSystemPaths
    ELSE IF pf = "linux" THEN LinuxSystemPaths
    ELSE {}

systemDirNames == {<<"b", "i", "n">>, <<"s", "b", "i", "n">>, <<"u", "s", "r">>, <<"e", "t", "c">>, <<"b", "o", "o", "t">>, <<"d", "e", "v">>, <<"p", "r", "o", "c">>, <<"s", "y", "s">>}

TmpMarker == <<"/", "t", "m", "p", "/">>
VarFoldersMarker == <<"/", "v", "a", "r", "/", "f", "o", "l", "d", "e", "r", "s", "/">>

\* isSystemPath(path), with the path as path.resolve gives it.
isSystemPathResolved(pf, f, resolvedPath) ==
    IF \/ Includes(resolvedPath, TmpMarker)
       \/ Includes(resolvedPath, HomeDir)
       \/ Includes(resolvedPath, VarFoldersMarker)
    THEN FALSE
    ELSE IF \E systemPath \in initializeSystemPaths(pf) :
                StartsWith(resolvedPath, systemPath)
    THEN TRUE
    ELSE IF resolvedPath \notin DOMAIN f THEN FALSE
    ELSE /\ f[resolvedPath].type = "directory"
         /\ Len(Segments(resolvedPath)) = 1
         /\ Segments(resolvedPath)[1] \in systemDirNames

\* isSystemPath(path)
isSystemPath(pf, f, path) == isSystemPathResolved(pf, f, resolve(path))

criticalDirs ==
    {<<".", "g", "i", "t">>, <<"n", "o", "d", "e", "_", "m", "o", "d", "u", "l", "e", "s">>, <<".", "v", "s", "c", "o", "d", "e">>, <<".", "i", "d", "e", "a">>, <<"p", "a", "c", "k", "a", "g", "e", ".", "j", "s", "o", "n">>,
     <<"p", "a", "c", "k", "a", "g", "e", "-", "l", "o", "c", "k", ".", "j", "s", "o", "n">>, <<"y", "a", "r", "n", ".", "l", "o", "c", "k">>, <<"C", "a", "r", "g", "o", ".", "t", "o", "m", "l">>, <<"r", "e", "q", "u", "i", "r", "e", "m", "e", "n", "t", "s", ".", "t", "x", "t">>, <<"p", "o", "m", ".", "x", "m", "l">>}

\* isCriticalDirectory(path)
isCriticalDirectory(path) == SplitPop(path, "/") \in criticalDirs

\* A directory with more immediate children than this is large.
LargeDirChildren == 1000

\* isLargeDirectory(path)
isLargeDirectory(f, path) ==
    /\ IsDir(f, path)
    /\ Cardinality({k \in DOMAIN f : k # path /\ dirname(k) = path}) > LargeDirChildren

\* isActiveFile(path): opening it for writing fails with EBUSY or ETXTBSY.
isActiveFile(f, path) ==
    Exists(f, path) /\ f[resolve(path)].type = "file" /\ f[resolve(path)].busy

Warning(m, p) == [msg |-> m, path |-> p]

\* A faulty variant of the push that follows: a warning makes the result
\* invalid.
WarnInvalid(result, m, path) ==
    [result EXCEPT !.warnings = Append(@, Warning(m, path)), !.isValid = FALSE]

\* result.warnings.push(message)
Warn(result, m, path) == [result EXCEPT !.warnings = Append(@, Warning(m, path))]

\* The warnings validatePaths adds for a path that exists and is no system
\* path, one check after the other.
warnCritical(result, path, resolvedPath) ==
    IF isCriticalDirectory(resolvedPath)
    THEN Warn(result, "Critical directory detected", path) ELSE result

warnLarge(f, result, path, resolvedPath) ==
    IF isLargeDirectory(f, resolvedPath)
    THEN Warn(result, "Large directory detected", path) ELSE result

warnActive(f, result, path, resolvedPath) ==
    IF isActiveFile(f, resolvedPath)
    THEN Warn(result, "File may be in use", path) ELSE result

\* The body of the loop of validatePaths, for one path.
validateOne(pf, f, path, resolvedPath, result) ==
    IF ~Exists(f, resolvedPath) THEN Warn(result, "Path does not exist", path)
    ELSE IF isSystemPath(pf, f, resolvedPath)
    THEN [result EXCEPT !.systemPaths = Append(@, path),
                        !.blockers = Append(@, Warning("System path detected", path)),
                        !.isValid = FALSE]
    ELSE warnActive(f, warnLarge(f, warnCritical(result, path, resolvedPath),
                                 path, resolvedPath),
                    path, resolvedPath)

\* validatePaths(paths), from the result built so far.
RECURSIVE validateFrom(_, _, _, _)
validateFrom(pf, f, paths, result) ==
    IF paths = <<>> THEN result
    ELSE validateFrom(pf, f, Tail(paths),
                      validateOne(pf, f, Head(paths), resolve(Head(paths)), result))

validatePaths(pf, f, paths) ==
    validateFrom(pf, f, paths,
        [isValid |-> TRUE, warnings |-> <<>>, blockers |-> <<>>, systemPaths |-> <<>>])

----------------------------------------------------------------------------
(* The quarantine store.  A world w is the state the managers act on:      *)
(* [fs, indexFile, nextId, osTrash, now, platform].  An operation returns  *)
(* the world it leaves, what it returns and whether it threw.              *)

quarantineDir == join(RootDir, <<"q", "u", "a", "r", "a", "n", "t", "i", "n", "e">>)
indexPath == join(RootDir, <<"q", "u", "a", "r", "a", "n", "t", "i", "n", "e", "-", "i", "n", "d", "e", "x", ".", "j", "s", "o", "n">>)

NoEntries == [id \in {} |-> id]

\* A faulty variant of the read that follows: it takes what a record held
\* before it was damaged for the index.
loadIndexKeeping(w) == w.indexFile.entries

\* loadIndex(): the entries of the record; an absent or unparsable record
\* reads as an empty index.
loadIndex(w) ==
    IF w.indexFile.state = "ok" THEN w.indexFile.entries ELSE NoEntries

\* saveIndex(index): [ok, w]. The write fails when the base directory is
\* missing or when the device refuses it (writeFails).
saveIndex(w, entries, writeFails) ==
    IF writeFails \/ ~IsDir(w.fs, dirname(indexPath))
    THEN [ok |-> FALSE, w |-> w]
    ELSE [ok |-> TRUE,
          w |-> [w EXCEPT !.indexFile = [state |-> "ok", entries |-> entries]]]

\* `${id}` of the id-th identifier randomUUID() hands out.
IdStr(id) == NumStr(id)

\* What quarantineFile leaves once fs.rename has answered mv.
quarantineFileMoved(w, sourcePath, id, quarantinePath, mv) ==
    IF ~mv.ok
    THEN [ok |-> FALSE, w |-> [w EXCEPT !.nextId = id], entry |-> <<>>]
    ELSE [ok |-> TRUE,
          w |-> [w EXCEPT !.nextId = id, !.fs = mv.fs],
          entry |-> [id |-> id,
                     originalPath |-> sourcePath,
                     quarantinePath |-> quarantinePath,
                     movedAt |-> w.now,
                     size |-> calculateSize(mv.fs, quarantinePath),
                     type |-> IF IsDir(w.fs, sourcePath) THEN "directory" ELSE "file"]]

\* quarantineFile from the rename on, with the id and the quarantine path
\* it has chosen.
quarantineFileTo(w, sourcePath, id, quarantinePath) ==
    quarantineFileMoved(w, sourcePath, id, quarantinePath,
                        Rename(w.fs, sourcePath, quarantinePath))

\* quarantineFile(sourcePath): [ok, w, entry].
quarantineFile(w, sourcePath) ==
    IF ~Exists(w.fs, sourcePath) THEN [ok |-> FALSE, w |-> w, entry |-> <<>>]
    ELSE quarantineFileTo(w, sourcePath, w.nextId + 1,
            join(quarantineDir,
                 IdStr(w.nextId + 1) \o <<"_">> \o basename(sourcePath)))

\* The loop of quarantine(paths): [w, entries, index].  quarantineNext is
\* the end of its body, once quarantineFile has answered q.
RECURSIVE quarantineEach(_, _, _, _), quarantineNext(_, _, _, _)
quarantineEach(w, paths, entries, index) ==
    IF paths = <<>> THEN [w |-> w, entries |-> entries, index |-> index]
    ELSE quarantineNext(quarantineFile(w, Head(paths)), Tail(paths), entries, index)

quarantineNext(q, rest, entries, index) ==
    IF q.ok
    THEN quarantineEach(q.w, rest, Append(entries, q.entry),
                        (q.entry.id :> q.entry) @@ index)
    ELSE quarantineEach(q.w, rest, entries, index)

\* What quarantine returns once saveIndex has answered.
quarantineSaved(done, saved) ==
    IF ~saved.ok THEN [threw |-> TRUE, w |-> done.w, entries |-> <<>>]
    ELSE [threw |-> FALSE, w |-> saved.w, entries |-> done.entries]

\* quarantine from the save of the index on.
quarantineDone(done, writeFails) ==
    quarantineSaved(done, saveIndex(done.w, done.index, writeFails))

\* quarantine from the loop on, in the world w1 where the directories are.
quarantineIn(w1, paths, writeFails) ==
    quarantineDone(quarantineEach(w1, paths, <<>>, loadIndex(w1)), writeFails)

\* quarantine once the second fs.mkdir has answered mk2.
quarantineMade(w, mk1, mk2, paths, writeFails) ==
    IF ~mk2.ok
    THEN [threw |-> TRUE, w |-> [w EXCEPT !.fs = mk1.fs], entries |-> <<>>]
    ELSE quarantineIn([w EXCEPT !.fs = mk2.fs], paths, writeFails)

\* quarantine once the first fs.mkdir has answered mk1.
quarantineMake(w, mk1, paths, writeFails) ==
    IF ~mk1.ok THEN [threw |-> TRUE, w |-> w, entries |-> <<>>]
    ELSE quarantineMade(w, mk1, Mkdir(mk1.fs, dirname(indexPath)), paths, writeFails)

\* quarantine(paths): [threw, w, entries].
quarantine(w, paths, writeFails) ==
    IF paths = <<>> THEN [threw |-> FALSE, w |-> w, entries |-> <<>>]
    ELSE quarantineMake(w, Mkdir(w.fs, quarantineDir), paths, writeFails)

\* pathExists(path)
pathExists(f, path) == Exists(f, path)

\* const ext = originalPath.includes('.') ? originalPath.split('.').pop() : ''
extensionOf(name) ==
    IF Includes(name, <<".">>) THEN SplitPop(name, ".") ELSE <<>>

\* `${baseName}${suffix}${ext ? '.' + ext : ''}`, with
\* baseName = ext ? name.replace(`.${ext}`, '') : name
Renamed(name, ext, suffix) ==
    (IF ext # <<>> THEN Replace(name, <<".">> \o ext, <<>>) ELSE name)
        \o suffix \o (IF ext # <<>> THEN <<".">> \o ext ELSE <<>>)

\* The loop of restore that resolves a name conflict at the restore location.
RECURSIVE restoreTarget(_, _, _, _)
restoreTarget(f, originalPath, restorePath, counter) ==
    IF ~pathExists(f, restorePath) THEN restorePath
    ELSE restoreTarget(f, originalPath,
            Renamed(originalPath, extensionOf(originalPath),
                    <<"_", "r", "e", "s", "t", "o", "r", "e", "d", "_">> \o NumStr(counter)),
            counter + 1)

\* What restore returns once saveIndex has answered.
restoreSaved(w2, restorePath, saved) ==
    IF ~saved.ok THEN [ok |-> FALSE, w |-> w2, restorePath |-> restorePath]
    ELSE [ok |-> TRUE, w |-> saved.w, restorePath |-> restorePath]

\* restore once fs.rename has answered mv.
restoreMoved(w, index, entryId, mk, restorePath, mv, writeFails) ==
    IF ~mv.ok
    THEN [ok |-> FALSE, w |-> [w EXCEPT !.fs = mk.fs], restorePath |-> restorePath]
    ELSE restoreSaved([w EXCEPT !.fs = mv.fs], restorePath,
            saveIndex([w EXCEPT !.fs = mv.fs],
                      [i \in DOMAIN index \ {entryId} |-> index[i]], writeFails))

\* restore from the rename on, with the restore path it has chosen.
restoreTo(w, index, entryId, mk, restorePath, writeFails) ==
    restoreMoved(w, index, entryId, mk, restorePath,
                 Rename(mk.fs, index[entryId].quarantinePath, restorePath),
                 writeFails)

\* restore once fs.mkdir has answered mk.
restoreMade(w, index, entryId, mk, writeFails) ==
    IF ~mk.ok THEN [ok |-> FALSE, w |-> w, restorePath |-> <<>>]
    ELSE restoreTo(w, index, entryId, mk,
            restoreTarget(mk.fs, index[entryId].originalPath,
                          index[entryId].originalPath, 1),
            writeFails)

\* A faulty variant of the step that follows: an entry that is missing, or
\* whose object is missing, is reported as restored.
restoreLenient(w, index, entryId, writeFails) ==
    IF entryId \notin DOMAIN index THEN [ok |-> TRUE, w |-> w, restorePath |-> <<>>]
    ELSE IF ~Exists(w.fs, index[entryId].quarantinePath)
    THEN [ok |-> TRUE, w |-> w, restorePath |-> <<>>]
    ELSE restoreMade(w, index, entryId,
                     Mkdir(w.fs, dirname(index[entryId].originalPath)), writeFails)

\* restore with the index it has loaded.
restoreFrom(w, index, entryId, writeFails) ==
    IF entryId \notin DOMAIN index THEN [ok |-> FALSE, w |-> w, restorePath |-> <<>>]
    ELSE IF ~Exists(w.fs, index[entryId].quarantinePath)
    THEN [ok |-> FALSE, w |-> w, restorePath |-> <<>>]
    ELSE restoreMade(w, index, entryId,
                     Mkdir(w.fs, dirname(index[entryId].originalPath)), writeFails)

\* restore(entryId): [ok, w, restorePath]; ok is what restore returns.
restore(w, entryId, writeFails) == restoreFrom(w, loadIndex(w), entryId, writeFails)

\* listQuarantine(): the entries of the index.
listQuarantine(w) == loadIndex(w)

\* getEntry(entryId): the entry, or null.
Null == [null |-> TRUE]
getEntry(w, entryId) ==
    IF entryId \in DOMAIN loadIndex(w) THEN loadIndex(w)[entryId] ELSE Null

\* getTotalSize()
getTotalSize(w) ==
    LET index == loadIndex(w)
    IN  Sum([i \in DOMAIN index |-> index[i].size], DOMAIN index)

\* The quarantined objects of the entries in ids removed from the filesystem.
RECURSIVE RmEntries(_, _, _)
RmEntries(f, index, ids) ==
    IF ids = {} THEN f
    ELSE LET i == CHOOSE j \in ids : TRUE
         IN  RmEntries(Rm(f, index[i].quarantinePath), index, ids \ {i})

\* What cleanup and clearAll return once saveIndex has answered, having
\* removed count objects and left the world w1.
removedSaved(w1, count, saved) ==
    IF ~saved.ok THEN [threw |-> TRUE, w |-> w1, count |-> 0]
    ELSE [threw |-> FALSE, w |-> saved.w, count |-> count]

\* cleanup from the save of the index on.
cleanupRemoved(w1, index, entriesToRemove, writeFails) ==
    removedSaved(w1, Cardinality(entriesToRemove),
        saveIndex(w1, [i \in DOMAIN index \ entriesToRemove |-> index[i]], writeFails))

\* cleanup with the entries it has found older than the cutoff.
cleanupOf(w, index, entriesToRemove, writeFails) ==
    IF entriesToRemove = {} THEN [threw |-> FALSE, w |-> w, count |-> 0]
    ELSE cleanupRemoved([w EXCEPT !.fs = RmEntries(w.fs, index, entriesToRemove)],
                        index, entriesToRemove, writeFails)

\* A faulty variant of the operation that follows: an entry moved at the
\* cutoff itself counts as old.
cleanupInclusive(w, retentionDays, writeFails) ==
    cleanupOf(w, loadIndex(w),
              {i \in DOMAIN loadIndex(w) :
                  loadIndex(w)[i].movedAt <= w.now - retentionDays},
              writeFails)

\* cleanup(retentionDays): [threw, w, count].
cleanup(w, retentionDays, writeFails) ==
    cleanupOf(w, loadIndex(w),
              {i \in DOMAIN loadIndex(w) :
                  loadIndex(w)[i].movedAt < w.now - retentionDays},
              writeFails)

\* clearAll from the save of the index on.
clearAllRemoved(w1, count, writeFails) ==
    removedSaved(w1, count, saveIndex(w1, NoEntries, writeFails))

\* clearAll(): [threw, w, count].
clearAll(w, writeFails) ==
    clearAllRemoved([w EXCEPT !.fs = RmEntries(w.fs, listQuarantine(w),
                                               DOMAIN listQuarantine(w))],
                    Cardinality(DOMAIN listQuarantine(w)), writeFails)

----------------------------------------------------------------------------
(* The Linux trash provider.  gio and cli say whether the desktop's trash  *)
(* command (gio trash) and the command-line utility (trash-put) are        *)
(* installed; an installed tool trashes a path that exists and fails on    *)
(* one that does not.                                                      *)

trashPath == join(HomeDir, <<".", "l", "o", "c", "a", "l", "/", "s", "h", "a", "r", "e", "/", "T", "r", "a", "s", "h">>)
filesPath == join(trashPath, <<"f", "i", "l", "e", "s">>)
infoPath == join(trashPath, <<"i", "n", "f", "o">>)

\* An external tool takes a path into the desktop's trash.
ExternalTrash(w, path) ==
    [w EXCEPT !.fs = Rm(w.fs, path), !.osTrash = @ \cup {resolve(path)}]

\* tryGioTrash(paths): [ok, w]. One command per path; the first that fails
\* ends the loop.
RECURSIVE tryGioTrash(_, _, _)
tryGioTrash(w, paths, gio) ==
    IF paths = <<>> THEN [ok |-> TRUE, w |-> w]
    ELSE IF ~gio \/ ~Exists(w.fs, Head(paths)) THEN [ok |-> FALSE, w |-> w]
    ELSE tryGioTrash(ExternalTrash(w, Head(paths)), Tail(paths), gio)

\* What trash-put leaves of a list of paths: those that exist are trashed.
RECURSIVE TrashPutAll(_, _)
TrashPutAll(w, paths) ==
    IF paths = <<>> THEN w
    ELSE IF Exists(w.fs, Head(paths))
         THEN TrashPutAll(ExternalTrash(w, Head(paths)), Tail(paths))
    ELSE TrashPutAll(w, Tail(paths))

\* tryTrashCli(paths): [ok, w]. One command for the whole list; it exits
\* with an error when it could not trash one of its operands.
tryTrashCli(w, paths, cli) ==
    IF ~cli THEN [ok |-> FALSE, w |-> w]
    ELSE [ok |-> \A i \in 1..Len(paths) : Exists(w.fs, paths[i]),
          w |-> TrashPutAll(w, paths)]

\* The loop of moveFileToTrash that resolves a name conflict in the trash.
RECURSIVE trashTarget(_, _, _, _)
trashTarget(f, fileName, targetFileName, counter) ==
    IF ~pathExists(f, join(filesPath, targetFileName)) THEN targetFileName
    ELSE trashTarget(f, fileName,
            Renamed(fileName, extensionOf(fileName), <<"_">> \o NumStr(counter)),
            counter + 1)

\* What moveFileToTrash leaves once fs.rename has answered mv.
moveFileMoved(w, wr, mv) ==
    IF ~mv.ok THEN [ok |-> FALSE, w |-> [w EXCEPT !.fs = wr.fs]]
    ELSE [ok |-> TRUE, w |-> [w EXCEPT !.fs = mv.fs]]

\* moveFileToTrash once fs.writeFile has answered wr for the .trashinfo file.
moveFileWritten(w, sourcePath, targetFileName, wr) ==
    IF ~wr.ok THEN [ok |-> FALSE, w |-> w]
    ELSE moveFileMoved(w, wr,
            Rename(wr.fs, sourcePath, join(filesPath, targetFileName)))

\* moveFileToTrash with the name it has chosen in the trash.
moveFileAs(w, sourcePath, targetFileName) ==
    moveFileWritten(w, sourcePath, targetFileName,
        WriteFile(w.fs, join(infoPath, targetFileName \o <<".", "t", "r", "a", "s", "h", "i", "n", "f", "o">>), 1))

\* sourcePath.split('/').pop() || 'unknown'
trashFileName(popped) == IF popped = <<>> THEN <<"u", "n", "k", "n", "o", "w", "n">> ELSE popped

\* moveFileToTrash with the file name of the source.
moveFileNamed(w, sourcePath, fileName) ==
    moveFileAs(w, sourcePath, trashTarget(w.fs, fileName, fileName, 1))

\* moveFileToTrash(sourcePath): [ok, w]; ~ok is a throw.
moveFileToTrash(w, sourcePath) ==
    moveFileNamed(w, sourcePath, trashFileName(SplitPop(sourcePath, "/")))

\* The loop of manualMoveToTrash: the first path that throws ends it.
\* moveNextToTrash is the end of its body, once moveFileToTrash has
\* answered m.
RECURSIVE moveEachToTrash(_, _), moveNextToTrash(_, _)
moveEachToTrash(w, paths) ==
    IF paths = <<>> THEN [ok |-> TRUE, w |-> w]
    ELSE moveNextToTrash(moveFileToTrash(w, Head(paths)), Tail(paths))

moveNextToTrash(m, rest) == IF ~m.ok THEN m ELSE moveEachToTrash(m.w, rest)

\* manualMoveToTrash once the second fs.mkdir has answered mk2.
manualMade(w, mk1, mk2, paths) ==
    IF ~mk2.ok THEN [ok |-> FALSE, w |-> [w EXCEPT !.fs = mk1.fs]]
    ELSE moveEachToTrash([w EXCEPT !.fs = mk2.fs], paths)

\* manualMoveToTrash once the first fs.mkdir has answered mk1.
manualMake(w, mk1, paths) ==
    IF ~mk1.ok THEN [ok |-> FALSE, w |-> w]
    ELSE manualMade(w, mk1, Mkdir(mk1.fs, infoPath), paths)

\* manualMoveToTrash(paths): [ok, w].
manualMoveToTrash(w, paths) == manualMake(w, Mkdir(w.fs, filesPath), paths)

\* LinuxTrash.moveToTrash once tryTrashCli has answered c.
afterTrashCli(c, paths) == IF c.ok THEN c ELSE manualMoveToTrash(c.w, paths)

\* LinuxTrash.moveToTrash once tryGioTrash has answered g.
afterGioTrash(g, paths, cli) ==
    IF g.ok THEN g ELSE afterTrashCli(tryTrashCli(g.w, paths, cli), paths)

\* LinuxTrash.moveToTrash(paths): [ok, w].
LinuxTrash_moveToTrash(w, paths, gio, cli) ==
    afterGioTrash(tryGioTrash(w, paths, gio), paths, cli)

\* TrashManager.createProvider(): [threw, provider].
createProvider(pf) ==
    IF pf \in {"darwin", "win32", "linux"} THEN [threw |-> FALSE, provider |-> pf]
    ELSE [threw |-> TRUE, provider |-> "none"]

\* TrashManager.isSupported(): the provider's isSupported().
isSupported(w) == w.platform \in {"darwin", "win32", "linux"}

\* What TrashManager.moveToTrash returns of what its provider returned.
provided(r) == [threw |-> FALSE, ok |-> r.ok, w |-> r.w]

\* TrashManager.moveToTrash(paths): [threw, ok, w].
TrashManager_moveToTrash(w, paths, gio, cli) ==
    IF ~isSupported(w) THEN [threw |-> TRUE, ok |-> FALSE, w |-> w]
    ELSE IF paths = <<>> THEN [threw |-> FALSE, ok |-> TRUE, w |-> w]
    ELSE provided(LinuxTrash_moveToTrash(w, paths, gio, cli))

----------------------------------------------------------------------------
(* The deletion orchestrator.  options is a DeletionOptions object: a      *)
(* record that holds the fields the caller has set, among dryRun,          *)
(* useTrash, skipConfirmation and interactive; env is [gio, cli,           *)
(* writeFails].  A call returns [w, result, validation, handed]: the       *)
(* world it leaves, its DeletionResult, the validation it made and the     *)
(* lists it handed to the trash provider and to the quarantine store, in   *)
(* call order.                                                             *)

\* options.field, with the default a destructuring gives an unset field.
Field(options, field, default) ==
    IF field \in DOMAIN options THEN options[field] ELSE default

\* Faulty variants of the destructuring that follows: one loses dryRun,
\* one defaults useTrash to false, one takes skipConfirmation as set.
destructureWet(options) ==
    [dryRun |-> FALSE,
     useTrash |-> Field(options, "useTrash", TRUE),
     skipConfirmation |-> Field(options, "skipConfirmation", FALSE)]

destructureQuarantine(options) ==
    [dryRun |-> Field(options, "dryRun", FALSE),
     useTrash |-> Field(options, "useTrash", FALSE),
     skipConfirmation |-> Field(options, "skipConfirmation", FALSE)]

destructureSkipping(options) ==
    [dryRun |-> Field(options, "dryRun", FALSE),
     useTrash |-> Field(options, "useTrash", TRUE),
     skipConfirmation |-> TRUE]

\* const { dryRun = false, useTrash = true, skipConfirmation = false } = options
destructure(options) ==
    [dryRun |-> Field(options, "dryRun", FALSE),
     useTrash |-> Field(options, "useTrash", TRUE),
     skipConfirmation |-> Field(options, "skipConfirmation", FALSE)]

Error(m, d) == [msg |-> m, detail |-> d]

\* entries.map(entry => entry.originalPath)
RECURSIVE originalPaths(_)
originalPaths(entries) ==
    IF entries = <<>> THEN <<>>
    ELSE <<Head(entries).originalPath>> \o originalPaths(Tail(entries))

\* What processQuarantine leaves once quarantine has answered q.
quarantined(q, paths, result) ==
    IF q.threw
    THEN [w |-> q.w,
          result |-> [result EXCEPT
                        !.errors = Append(@, Error("Quarantine operation failed", <<>>)),
                        !.failedPaths = @ \o paths]]
    ELSE [w |-> q.w,
          result |-> [result EXCEPT
                        !.processedPaths = originalPaths(q.entries),
                        !.success = TRUE]]

\* processQuarantine(paths, result): [w, result].
processQuarantine(w, paths, result, env) ==
    quarantined(quarantine(w, paths, env.writeFails), paths, result)

\* A faulty variant of the total that follows: the size of the first path.
firstPathSize(f, paths) ==
    IF paths = <<>> THEN 0 ELSE calculateSize(f, Head(paths))

\* The total of calculatePathSize over a list of paths.
RECURSIVE totalPathSize(_, _)
totalPathSize(f, paths) ==
    IF paths = <<>> THEN 0
    ELSE calculateSize(f, Head(paths)) + totalPathSize(f, Tail(paths))

\* A list of paths handed to the trash provider or to the quarantine store.
ToTrash(paths) == [to |-> "trash", paths |-> paths]
ToQuarantine(paths) == [to |-> "quarantine", paths |-> paths]

\* What a call leaves: the world, its DeletionResult, the validation it
\* made and the lists it handed to the trash provider and to the
\* quarantine store, in call order.
Outcome(w, result, validation, handed) ==
    [w |-> w, result |-> result, validation |-> validation, handed |-> handed]

\* The validation of a call that validated nothing.
NoValidation ==
    [isValid |-> TRUE, warnings |-> <<>>, blockers |-> <<>>, systemPaths |-> <<>>]

\* The DeletionResult safeDelete starts from.
initialResult(w, opt) ==
    [success |-> FALSE,
     processedPaths |-> <<>>,
     failedPaths |-> <<>>,
     totalSize |-> 0,
     method |-> IF opt.useTrash /\ isSupported(w) THEN "trash" ELSE "quarantine",
     dryRun |-> opt.dryRun,
     errors |-> <<>>]

\* A faulty variant of the step that follows: failedPaths is left as the
\* routing made it.
finishedAsRouted(p, validation, handed) == Outcome(p.w, p.result, validation, handed)

\* The end of safeDelete: result.failedPaths = validation.systemPaths.
finished(p, validation, handed) ==
    Outcome(p.w, [p.result EXCEPT !.failedPaths = validation.systemPaths],
            validation, handed)

\* safeDelete once the trash manager has answered t.
trashed(t, validPaths, result, validation, env) ==
    IF ~t.threw /\ t.ok
    THEN finished([w |-> t.w,
                   result |-> [result EXCEPT !.processedPaths = validPaths,
                                             !.success = TRUE]],
                  validation, <<ToTrash(validPaths)>>)
    ELSE finished(processQuarantine(t.w, validPaths,
                      [result EXCEPT
                          !.method = "quarantine",
                          !.errors = IF t.threw
                                     THEN Append(@, Error("Trash operation failed", <<>>))
                                     ELSE @],
                      env),
                  validation, <<ToTrash(validPaths), ToQuarantine(validPaths)>>)

\* safeDelete from the routing on.
route(w, validPaths, result, validation, env) ==
    IF result.method = "trash" /\ isSupported(w)
    THEN trashed(TrashManager_moveToTrash(w, validPaths, env.gio, env.cli),
                 validPaths, result, validation, env)
    ELSE finished(processQuarantine(w, validPaths, result, env),
                  validation, <<ToQuarantine(validPaths)>>)

\* safeDelete from the dry run test on, the sizes summed into the result.
sized(w, paths, opt, validPaths, result, validation, env) ==
    IF opt.dryRun
    THEN Outcome(w, [result EXCEPT !.success = TRUE,
                                   !.processedPaths = validPaths,
                                   !.failedPaths = validation.systemPaths],
                 validation, <<>>)
    ELSE IF validPaths = <<>>
    THEN Outcome(w, [result EXCEPT
                        !.success = FALSE,
                        !.failedPaths = paths,
                        !.errors = Append(@, Error("No valid paths to process", <<>>))],
                 validation, <<>>)
    ELSE route(w, validPaths, result, validation, env)

\* safeDelete with the paths it goes on with.
filtered(w, paths, opt, validPaths, result, validation, env) ==
    sized(w, paths, opt, validPaths,
          [result EXCEPT !.totalSize = totalPathSize(w.fs, validPaths)],
          validation, env)

\* safeDelete once validatePaths has answered.
validated(w, paths, opt, result, validation, env) ==
    IF ~validation.isValid /\ ~opt.skipConfirmation
    THEN Outcome(w, [result EXCEPT
                        !.errors = Append(@, Error("Validation failed",
                                                   validation.blockers))],
                 validation, <<>>)
    ELSE filtered(w, paths, opt,
                  SelectPaths(paths, Range(validation.systemPaths)),
                  result, validation, env)

\* safeDelete with its options destructured and its result set up.
started(w, paths, opt, result, env) ==
    IF paths = <<>>
    THEN Outcome(w, [result EXCEPT !.success = TRUE], NoValidation, <<>>)
    ELSE validated(w, paths, opt, result, validatePaths(w.platform, w.fs, paths), env)

\* safeDelete with its options destructured.
destructured(w, paths, opt, env) == started(w, paths, opt, initialResult(w, opt), env)

\* safeDelete(paths, options)
safeDelete(w, paths, options, env) == destructured(w, paths, destructure(options), env)

----------------------------------------------------------------------------
(* The confirmation protocol. *)

\* The ConfirmationPrompt of the paths that passed the filter.
promptOf(w, options, validation, validPaths, totalSize) ==
    [message |-> IF Len(validPaths) = 0 THEN "No valid items to delete."
                 ELSE IF Len(validPaths) = 1 THEN "Delete one item?"
                 ELSE "Delete items?",
     details |-> IF Len(validPaths) <= 10 THEN validPaths
                 ELSE SubSeq(validPaths, 1, 8) \o <<<<".", ".", ".">>>>,
     warnings |->
        validation.warnings
        \o (IF Len(validation.systemPaths) > 0
            THEN <<Warning("system paths will be skipped for safety",
                           validation.systemPaths)>>
            ELSE <<>>)
        \o (IF totalSize > 1024 * 1024 * 1024
            THEN <<Warning("This operation will free more than 1GB of space", <<>>)>>
            ELSE <<>>),
     totalSize |-> totalSize,
     itemCount |-> Len(validPaths),
     method |-> IF Field(options, "useTrash", TRUE) /\ isSupported(w)
                THEN "trash" ELSE "quarantine"]

\* generateConfirmationPrompt with the paths that passed the filter.
promptFiltered(w, options, validation, validPaths) ==
    promptOf(w, options, validation, validPaths, totalPathSize(w.fs, validPaths))

\* generateConfirmationPrompt once validatePaths has answered.
promptValidated(w, paths, options, validation) ==
    promptFiltered(w, options, validation,
                   SelectPaths(paths, Range(validation.systemPaths)))

\* generateConfirmationPrompt(paths, options)
generateConfirmationPrompt(w, paths, options) ==
    promptValidated(w, paths, options, validatePaths(w.platform, w.fs, paths))

\* A faulty variant of the test that follows: it asks outside interactive
\* mode too.
asksNonInteractive(options, hasCallback) ==
    hasCallback /\ ~Field(options, "skipConfirmation", FALSE)

\* The test that opens safeDeleteWithConfirmation: the callback is asked in
\* interactive mode, when one was supplied and confirmation is not skipped.
needsConfirmation(options, hasCallback) ==
    /\ Field(options, "interactive", FALSE)
    /\ hasCallback
    /\ ~Field(options, "skipConfirmation", FALSE)

\* A faulty variant of the test that follows: a negative decision passes.
neverCancelled(decision) == FALSE

\* !confirmation.confirmed
cancelled(decision) == ~decision.confirmed

\* A faulty variant of the update that follows: the flag is not kept.
forgetSkip(options, decision) == options

\* if (confirmation.skipFuture) options.skipConfirmation = true: the
\* caller's options object after the callback has answered.
rememberSkip(options, decision) ==
    IF decision.skipFuture
    THEN [f \in DOMAIN options \cup {"skipConfirmation"} |->
            IF f = "skipConfirmation" THEN TRUE ELSE options[f]]
    ELSE options

\* The early return of safeDeleteWithConfirmation with the error e.
Refused(w, paths, prompt, size, e) ==
    Outcome(w, [success |-> FALSE,
                processedPaths |-> <<>>,
                failedPaths |-> paths,
                totalSize |-> size,
                method |-> prompt.method,
                dryRun |-> FALSE,
                errors |-> <<Error(e, <<>>)>>],
            NoValidation, <<>>)

\* What a call of safeDeleteWithConfirmation leaves: what safeDelete leaves
\* and, besides, callbackCalls (how often it invoked the callback) and
\* options (the caller's options object after the call).
Asked(r, callbackCalls, options) ==
    [w |-> r.w, result |-> r.result, validation |-> r.validation,
     handed |-> r.handed,
     callbackCalls |-> callbackCalls, options |-> options]

\* safeDelete(paths, options) at the end of safeDeleteWithConfirmation, the
\* callback asked callbackCalls times.
proceed(w, paths, options, callbackCalls, env) ==
    Asked(safeDelete(w, paths, options, env), callbackCalls, options)

\* safeDeleteWithConfirmation with the prompt it has generated.
prompted(w, paths, options, prompt, decision, env) ==
    IF prompt.itemCount = 0
    THEN Asked(Refused(w, paths, prompt, 0, "No valid items to delete"), 0, options)
    ELSE IF cancelled(decision)
    THEN Asked(Refused(w, paths, prompt, prompt.totalSize,
                       "Operation cancelled by user"), 1, options)
    ELSE proceed(w, paths, rememberSkip(options, decision), 1, env)

\* safeDeleteWithConfirmation(paths, options, confirmationCallback).
\* hasCallback says whether a callback was supplied and decision is what
\* the callback answers when asked.
safeDeleteWithConfirmation(w, paths, options, hasCallback, decision, env) ==
    IF needsConfirmation(options, hasCallback)
    THEN prompted(w, paths, options, generateConfirmationPrompt(w, paths, options),
                  decision, env)
    ELSE proceed(w, paths, options, 0, env)

----------------------------------------------------------------------------
(* The state machine.  A call is one step: it takes the program from an    *)
(* idle state to the state the handler leaves, with the call, the world    *)
(* before it and what it returned in `last`; Return hands the result to    *)
(* the caller.                                                             *)

World ==
    [platform |-> platform, fs |-> fs, indexFile |-> indexFile,
     nextId |-> nextId, osTrash |-> osTrash, now |-> now]

SetWorld(w) ==
    /\ fs' = w.fs
    /\ indexFile' = w.indexFile
    /\ nextId' = w.nextId
    /\ osTrash' = w.osTrash
    /\ UNCHANGED <<platform, now>>

Idle == [op |-> "idle"]

\* The processes that call the store on one quarantine root, and a process
\* that has no call in flight.
Proc == {"p1", "p2"}
NotRunning == [pc |-> "idle"]

\* The options objects the callers hold.
OptRef == {"o1", "o2"}

\* The paths handed to the orchestrator.
OrchPaths == {pA, pSys, pNone}

\* The lists of at most n distinct paths of U.
ListsOf(U, n) ==
    {s \in UNION {[1..k -> U] : k \in 0..n} :
        \A i, j \in 1..Len(s) : i # j => s[i] # s[j]}

\* The options objects with the fields of F set away from their defaults.
OptionObjects(F) == {[f \in G |-> f # "useTrash"] : G \in SUBSET F}

\* The environments a call can tell apart: which of the trash tools are
\* installed counts only when the trash provider is asked.  The index file
\* is writable here.
EnvsFor(options) ==
    IF Field(options, "dryRun", FALSE) \/ ~Field(options, "useTrash", TRUE)
    THEN {[gio |-> FALSE, cli |-> FALSE, writeFails |-> FALSE]}
    ELSE [gio : BOOLEAN, cli : BOOLEAN, writeFails : {FALSE}]

NoDecision == [confirmed |-> FALSE, skipFuture |-> FALSE]

Decisions == [confirmed : BOOLEAN, skipFuture : BOOLEAN]

Init ==
    /\ platform = "linux"
    /\ fs = InitialFs
    /\ indexFile = [state |-> "absent", entries |-> NoEntries]
    /\ nextId = 0
    /\ osTrash = {}
    /\ optSkip = [o \in OptRef |-> FALSE]
    /\ now = 0
    /\ calls = 0
    /\ running = [p \in Proc |-> NotRunning]
    /\ last = Idle

\* A caller calls safeDelete(paths, options).
SafeDeleteCall ==
    /\ last = Idle
    /\ calls < MaxCalls
    /\ \E paths \in ListsOf(OrchPaths, MaxPaths) :
       \E options \in OptionObjects({"dryRun", "useTrash", "skipConfirmation"}) :
       \E env \in EnvsFor(options) :
          LET r == safeDelete(World, paths, options, env)
          IN  /\ SetWorld(r.w)
              /\ calls' = calls + 1
              /\ last' = [op |-> "safeDelete", paths |-> paths, options |-> options,
                          env |-> env, result |-> r.result,
                          validation |-> r.validation,
                          handed |-> r.handed, before |-> World]
              /\ UNCHANGED <<optSkip, running>>

\* The caller's options object o, with the fields of `chosen` as the
\* caller has set them and skipConfirmation as the object holds it.
OptionsObject(o, chosen) ==
    IF optSkip[o]
    THEN [f \in DOMAIN chosen \cup {"skipConfirmation"} |->
            IF f = "skipConfirmation" THEN TRUE ELSE chosen[f]]
    ELSE chosen

\* A caller calls safeDeleteWithConfirmation(paths, options, callback) with
\* its options object o.  The decision is what the callback answers; it
\* and the environment are drawn only where the call can tell them apart.
SafeDeleteWithConfirmationCall ==
    /\ last = Idle
    /\ calls < MaxCalls
    /\ \E paths \in ListsOf(OrchPaths, MaxPaths), o \in OptRef,
          chosen \in OptionObjects({"dryRun", "useTrash", "interactive"}),
          hasCallback \in BOOLEAN, decision \in Decisions,
          env \in [gio : BOOLEAN, cli : BOOLEAN, writeFails : {FALSE}] :
          LET options == OptionsObject(o, chosen)
              asks == needsConfirmation(options, hasCallback)
              r == safeDeleteWithConfirmation(World, paths, options,
                                              hasCallback, decision, env)
          IN  /\ asks \/ decision = NoDecision
              /\ IF asks /\ cancelled(decision)
                 THEN env = [gio |-> FALSE, cli |-> FALSE, writeFails |-> FALSE]
                 ELSE env \in EnvsFor(options)
              /\ SetWorld(r.w)
              /\ calls' = calls + 1
              /\ UNCHANGED running
              /\ optSkip' = [optSkip EXCEPT
                               ![o] = Field(r.options, "skipConfirmation", FALSE)]
              /\ last' = [op |-> "safeDeleteWithConfirmation",
                          paths |-> paths, ref |-> o, options |-> options,
                          hasCallback |-> hasCallback, decision |-> decision,
                          env |-> env, result |-> r.result,
                          validation |-> r.validation,
                          handed |-> r.handed, before |-> World,
                          heldBefore |-> optSkip,
                          callbackCalls |-> r.callbackCalls]

\* The caller takes the result.
Return ==
    /\ last # Idle
    /\ last' = Idle
    /\ UNCHANGED <<platform, fs, indexFile, nextId, osTrash, optSkip, now, calls, running>>

Next ==
    \/ SafeDeleteCall
    \/ SafeDeleteWithConfirmationCall
    \/ Return

Spec == Init /\ [][Next]_vars

----------------------------------------------------------------------------
(* The orchestrator from its construction on, on Linux and on a platform   *)
(* that has no trash provider: new SafetyManager(), then safeDelete.       *)

\* new SafetyManager(rootDir): it makes its TrashManager first, which makes
\* its provider.
newSafetyManager(pf) == [threw |-> createProvider(pf).threw]

PlatformInit ==
    /\ platform \in {"linux", "freebsd"}
    /\ fs = InitialFs
    /\ indexFile = [state |-> "absent", entries |-> NoEntries]
    /\ nextId = 0
    /\ osTrash = {}
    /\ optSkip = [o \in OptRef |-> FALSE]
    /\ now = 0
    /\ calls = 0
    /\ running = [p \in Proc |-> NotRunning]
    /\ last = Idle

\* A caller makes the orchestrator and calls safeDelete(paths, options).
ConstructAndDelete ==
    /\ last = Idle
    /\ calls < MaxCalls
    /\ \E paths \in ListsOf(OrchPaths, MaxPaths) :
       \E options \in OptionObjects({"dryRun", "useTrash", "skipConfirmation"}) :
       \E env \in EnvsFor(options) :
          IF newSafetyManager(platform).threw
          THEN /\ last' = [op |-> "new SafetyManager", threw |-> TRUE,
                           paths |-> paths, options |-> options, before |-> World]
               /\ UNCHANGED <<platform, fs, indexFile, nextId, osTrash, now>>
          ELSE LET r == safeDelete(World, paths, options, env)
               IN  /\ SetWorld(r.w)
                   /\ last' = [op |-> "safeDelete", paths |-> paths, options |-> options,
                               env |-> env, result |-> r.result,
                               validation |-> r.validation,
                               handed |-> r.handed, before |-> World]
    /\ calls' = calls + 1
    /\ UNCHANGED <<optSkip, running>>

PlatformNext == ConstructAndDelete \/ Return

PlatformSpec == PlatformInit /\ [][PlatformNext]_vars

----------------------------------------------------------------------------
(* The orchestrator on a device that may refuse the write of the           *)
(* quarantine index: safeDelete called as in Spec, with index writes that  *)
(* fail or succeed.                                                        *)

\* safeDelete(paths, options)
SafeDeleteOnFaultyDevice ==
    /\ last = Idle
    /\ calls < MaxCalls
    /\ \E paths \in ListsOf(OrchPaths, MaxPaths) :
       \E options \in OptionObjects({"dryRun", "useTrash", "skipConfirmation"}) :
       \E env \in [gio : BOOLEAN, cli : BOOLEAN, writeFails : BOOLEAN] :
          LET r == safeDelete(World, paths, options, env)
          IN  /\ Field(options, "dryRun", FALSE) => env = [gio |-> FALSE, cli |-> FALSE, writeFails |-> FALSE]
              /\ SetWorld(r.w)
              /\ last' = [op |-> "safeDelete", paths |-> paths, options |-> options,
                          env |-> env, result |-> r.result,
                          validation |-> r.validation,
                          handed |-> r.handed, before |-> World]
    /\ calls' = calls + 1
    /\ UNCHANGED <<optSkip, running>>

FaultyNext == SafeDeleteOnFaultyDevice \/ Return

FaultySpec == Init /\ [][FaultyNext]_vars

----------------------------------------------------------------------------
(* The validator on its own: validatePaths called with lists of paths on   *)
(* either POSIX platform.  It reads the filesystem and changes nothing.    *)

MaxValidated == 3

\* A directory of a critical name, and a directory that holds one child more
\* than a directory may hold before it counts as large.
pGit == <<"/", "h", "/", ".", "g", "i", "t">>
pBig == <<"/", "h", "/", "b", "i", "g">>

\* The filesystem the validator is given: the files of InitialFs and the
\* two directories.
LargeFs ==
    [k \in {join(pBig, NumStr(i)) : i \in 1..(LargeDirChildren + 1)} |-> File(1, FALSE)]
    @@ (pGit :> Dir) @@ (pBig :> Dir) @@ InitialFs

ValidatedPaths == PathUniverse \cup {pGit, pBig}

ValidatorInit ==
    /\ platform \in {"linux", "darwin"}
    /\ fs = LargeFs
    /\ indexFile = [state |-> "absent", entries |-> NoEntries]
    /\ nextId = 0
    /\ osTrash = {}
    /\ optSkip = [o \in OptRef |-> FALSE]
    /\ now = 0
    /\ calls = 0
    /\ running = [p \in Proc |-> NotRunning]
    /\ last = Idle

\* validatePaths(paths)
ValidatePathsCall ==
    /\ last = Idle
    /\ \E paths \in ListsOf(ValidatedPaths, MaxValidated) :
          last' = [op |-> "validatePaths", paths |-> paths,
                   validation |-> validatePaths(platform, fs, paths)]
    /\ UNCHANGED <<platform, fs, indexFile, nextId, osTrash, optSkip, now, calls, running>>

ValidatorNext == ValidatePathsCall \/ Return

ValidatorSpec == ValidatorInit /\ [][ValidatorNext]_vars

----------------------------------------------------------------------------
(* The quarantine store on its own: quarantine, restore, cleanup and       *)
(* clearAll called in any order, on a filesystem where other programs may  *)
(* write a file at a place a quarantined object came from, and with a      *)
(* clock that moves.  The index write does not fail here.                  *)

MaxStoreCalls == 3
MaxNow == 1

\* The place the store gives the first object it takes of a file named a.t.
pQ == join(quarantineDir, IdStr(1) \o <<"_">> \o basename(pA))

StorePaths == {pA, pF, pQ}

\* quarantine(paths)
QuarantineCall ==
    /\ last = Idle
    /\ calls < MaxStoreCalls
    /\ \E paths \in ListsOf(StorePaths, MaxPaths) :
          LET r == quarantine(World, paths, FALSE)
          IN  /\ SetWorld(r.w)
              /\ last' = [op |-> "quarantine", paths |-> paths, entries |-> r.entries,
                          threw |-> r.threw, before |-> World]
    /\ calls' = calls + 1
    /\ UNCHANGED <<optSkip, running>>

\* restore(entryId), with an id the store has handed out or one it has not.
RestoreCall ==
    /\ last = Idle
    /\ calls < MaxStoreCalls
    /\ \E entryId \in 1..(nextId + 1) :
          LET r == restore(World, entryId, FALSE)
          IN  /\ SetWorld(r.w)
              /\ last' = [op |-> "restore", entryId |-> entryId, ok |-> r.ok,
                          restorePath |-> r.restorePath, before |-> World]
    /\ calls' = calls + 1
    /\ UNCHANGED <<optSkip, running>>

\* cleanup(retentionDays)
CleanupCall ==
    /\ last = Idle
    /\ calls < MaxStoreCalls
    /\ \E retentionDays \in {0, 1} :
          LET r == cleanup(World, retentionDays, FALSE)
          IN  /\ SetWorld(r.w)
              /\ last' = [op |-> "cleanup", retentionDays |-> retentionDays,
                          count |-> r.count, threw |-> r.threw, before |-> World]
    /\ calls' = calls + 1
    /\ UNCHANGED <<optSkip, running>>

\* clearAll()
ClearAllCall ==
    /\ last = Idle
    /\ calls < MaxStoreCalls
    /\ LET r == clearAll(World, FALSE)
       IN  /\ SetWorld(r.w)
           /\ last' = [op |-> "clearAll", count |-> r.count, threw |-> r.threw,
                       before |-> World]
    /\ calls' = calls + 1
    /\ UNCHANGED <<optSkip, running>>

\* Another program writes a file at the place, outside the quarantine
\* directory, that a quarantined object came from.
CreateFile ==
    /\ last = Idle
    /\ \E i \in DOMAIN loadIndex(World) :
          LET path == loadIndex(World)[i].originalPath
              wr == WriteFile(fs, path, 1)
          IN  /\ ~Exists(fs, path)
              /\ ~Under(resolve(path), quarantineDir)
              /\ wr.ok
              /\ fs' = wr.fs
    /\ UNCHANGED <<platform, indexFile, nextId, osTrash, optSkip, now, calls, running, last>>

\* A day passes.
Tick ==
    /\ last = Idle
    /\ now < MaxNow
    /\ now' = now + 1
    /\ UNCHANGED <<platform, fs, indexFile, nextId, osTrash, optSkip, calls, running, last>>

StoreNext ==
    \/ QuarantineCall
    \/ RestoreCall
    \/ CleanupCall
    \/ ClearAllCall
    \/ CreateFile
    \/ Tick
    \/ Return

StoreSpec == Init /\ [][StoreNext]_vars

----------------------------------------------------------------------------
(* The Linux trash provider on its own: moveToTrash called with lists of   *)
(* paths, with or without the desktop's tools installed.                   *)

MaxTrashCalls == 2

TrashPaths == {pA, pF, pNone}

\* LinuxTrash.moveToTrash(paths)
MoveToTrashCall ==
    /\ last = Idle
    /\ calls < MaxTrashCalls
    /\ \E paths \in ListsOf(TrashPaths, MaxPaths), gio \in BOOLEAN, cli \in BOOLEAN :
          LET r == LinuxTrash_moveToTrash(World, paths, gio, cli)
          IN  /\ SetWorld(r.w)
              /\ last' = [op |-> "moveToTrash", paths |-> paths, gio |-> gio,
                          cli |-> cli, ok |-> r.ok, before |-> World]
    /\ calls' = calls + 1
    /\ UNCHANGED <<optSkip, running>>

TrashNext == MoveToTrashCall \/ Return

TrashSpec == Init /\ [][TrashNext]_vars

----------------------------------------------------------------------------
(* Two processes that call quarantine on the same root.  A call runs in    *)
(* steps, one per stretch of the handler between the points where it       *)
(* waits for the filesystem: it makes the directories, loads the index,    *)
(* quarantines its paths one by one while it adds the entries to the index *)
(* it loaded, and stores that index.  The steps of the two processes       *)
(* interleave freely; nothing locks the index.                             *)

MaxInvocations == 2

RacePaths == {pA, pF}

\* A faulty variant of the update that follows: the entry is not added.
withoutEntry(index, entry) == index

\* index.entries[entry.id] = entry
withEntry(index, entry) == (entry.id :> entry) @@ index

\* quarantine(paths) is called and makes its directories.
Invoke(p) ==
    /\ last = Idle
    /\ running[p].pc = "idle"
    /\ calls < MaxInvocations
    /\ calls' = calls + 1
    /\ \E paths \in ListsOf(RacePaths, MaxPaths) :
          LET mk1 == Mkdir(fs, quarantineDir)
              mk2 == Mkdir(mk1.fs, dirname(indexPath))
          IN  IF paths = <<>> \/ ~mk1.ok
              THEN UNCHANGED <<fs, running>>
              ELSE /\ fs' = mk2.fs
                   /\ running' = [running EXCEPT ![p] =
                        IF ~mk2.ok THEN NotRunning
                        ELSE [pc |-> "load", paths |-> paths]]
    /\ UNCHANGED <<platform, indexFile, nextId, osTrash, optSkip, now, last>>

\* const index = await this.loadIndex()
Load(p) ==
    /\ last = Idle
    /\ running[p].pc = "load"
    /\ running' = [running EXCEPT ![p] =
          [pc |-> "loop", paths |-> running[p].paths, loaded |-> loadIndex(World),
           index |-> loadIndex(World), entries |-> <<>>]]
    /\ UNCHANGED <<platform, fs, indexFile, nextId, osTrash, optSkip, now, calls, last>>

\* One turn of the loop of quarantine: quarantineFile on the next path.
QuarantineOne(p) ==
    /\ last = Idle
    /\ running[p].pc = "loop"
    /\ running[p].paths # <<>>
    /\ LET q == quarantineFile(World, Head(running[p].paths))
       IN  /\ SetWorld(q.w)
           /\ running' = [running EXCEPT ![p] =
                 [@ EXCEPT !.paths = Tail(@),
                           !.index = IF q.ok THEN withEntry(@, q.entry) ELSE @,
                           !.entries = IF q.ok THEN Append(@, q.entry) ELSE @]]
    /\ UNCHANGED <<optSkip, calls, last>>

\* await this.saveIndex(index); return entries
Store(p) ==
    /\ last = Idle
    /\ running[p].pc = "loop"
    /\ running[p].paths = <<>>
    /\ LET saved == saveIndex(World, running[p].index, FALSE)
       IN  /\ SetWorld(saved.w)
           /\ last' = [op |-> "quarantineStored", proc |-> p,
                       loaded |-> running[p].loaded,
                       entries |-> running[p].entries,
                       threw |-> ~saved.ok, before |-> World]
    /\ running' = [running EXCEPT ![p] = NotRunning]
    /\ UNCHANGED <<optSkip, calls>>

RaceNext ==
    \/ \E p \in Proc : Invoke(p)
    \/ \E p \in Proc : Load(p)
    \/ \E p \in Proc : QuarantineOne(p)
    \/ \E p \in Proc : Store(p)
    \/ Return

RaceSpec == Init /\ [][RaceNext]_vars

----------------------------------------------------------------------------
(* Two processes that call restore on the same root.  A call runs in       *)
(* steps, one per stretch of the handler between the points where it       *)
(* waits for the filesystem.  While no restore is in flight the store      *)
(* takes a file and other programs write a file where it was, so that two  *)
(* entries can name the same original path.                                *)

\* No restore is in flight.
AllIdle == \A p \in Proc : running[p] = NotRunning

\* quarantine([path]) of the file at pA.
TakeFile ==
    /\ last = Idle
    /\ AllIdle
    /\ calls < MaxInvocations
    /\ Exists(fs, pA)
    /\ SetWorld(quarantine(World, <<pA>>, FALSE).w)
    /\ calls' = calls + 1
    /\ UNCHANGED <<optSkip, running, last>>

\* restore(entryId) is called and loads the index; it returns false when
\* the index has no such entry.
RestoreLoad(p) ==
    /\ last = Idle
    /\ running[p] = NotRunning
    /\ \E entryId \in 1..nextId :
          running' = [running EXCEPT ![p] =
             IF entryId \notin DOMAIN loadIndex(World) THEN NotRunning
             ELSE [pc |-> "access", entryId |-> entryId, index |-> loadIndex(World),
                   entry |-> loadIndex(World)[entryId]]]
    /\ UNCHANGED <<platform, fs, indexFile, nextId, osTrash, optSkip, now, calls, last>>

\* await fs.access(entry.quarantinePath): false is returned when it fails.
RestoreAccess(p) ==
    /\ last = Idle
    /\ running[p].pc = "access"
    /\ running' = [running EXCEPT ![p] =
          IF ~Exists(fs, @.entry.quarantinePath) THEN NotRunning
          ELSE [@ EXCEPT !.pc = "mkdir"]]
    /\ UNCHANGED <<platform, fs, indexFile, nextId, osTrash, optSkip, now, calls, last>>

\* await fs.mkdir(dirname(entry.originalPath), { recursive: true })
RestoreMkdir(p) ==
    /\ last = Idle
    /\ running[p].pc = "mkdir"
    /\ LET mk == Mkdir(fs, dirname(running[p].entry.originalPath))
       IN  /\ fs' = mk.fs
           /\ running' = [running EXCEPT ![p] =
                 IF ~mk.ok THEN NotRunning
                 ELSE [pc |-> "probe", entryId |-> @.entryId, index |-> @.index,
                       entry |-> @.entry, restorePath |-> @.entry.originalPath,
                       counter |-> 1]]
    /\ UNCHANGED <<platform, indexFile, nextId, osTrash, optSkip, now, calls, last>>

\* One test of the loop condition, await this.pathExists(restorePath), and
\* the body of the loop when the path exists.
RestoreProbe(p) ==
    /\ last = Idle
    /\ running[p].pc = "probe"
    /\ running' = [running EXCEPT ![p] =
          IF ~pathExists(fs, @.restorePath) THEN [@ EXCEPT !.pc = "rename"]
          ELSE [@ EXCEPT !.restorePath =
                            Renamed(running[p].entry.originalPath,
                                    extensionOf(running[p].entry.originalPath),
                                    <<"_", "r", "e", "s", "t", "o", "r", "e", "d", "_">>
                                        \o NumStr(running[p].counter)),
                         !.counter = @ + 1]]
    /\ UNCHANGED <<platform, fs, indexFile, nextId, osTrash, optSkip, now, calls, last>>

\* await fs.rename(entry.quarantinePath, restorePath): false is returned
\* when it fails.
RestoreRename(p) ==
    /\ last = Idle
    /\ running[p].pc = "rename"
    /\ LET mv == Rename(fs, running[p].entry.quarantinePath, running[p].restorePath)
       IN  /\ fs' = mv.fs
           /\ running' = [running EXCEPT ![p] =
                 IF ~mv.ok THEN NotRunning ELSE [@ EXCEPT !.pc = "save"]]
           /\ last' = [op |-> "restoreRenamed", proc |-> p, moved |-> mv.ok,
                       entryId |-> running[p].entryId,
                       restorePath |-> running[p].restorePath, before |-> World]
    /\ UNCHANGED <<platform, indexFile, nextId, osTrash, optSkip, now, calls>>

\* delete index.entries[entryId]; await this.saveIndex(index); return true
RestoreSave(p) ==
    /\ last = Idle
    /\ running[p].pc = "save"
    /\ LET saved == saveIndex(World,
                       [i \in DOMAIN running[p].index \ {running[p].entryId} |->
                           running[p].index[i]], FALSE)
       IN  SetWorld(saved.w)
    /\ running' = [running EXCEPT ![p] = NotRunning]
    /\ UNCHANGED <<optSkip, calls, last>>

RestoreRaceNext ==
    \/ TakeFile
    \/ AllIdle /\ CreateFile
    \/ \E p \in Proc : RestoreLoad(p)
    \/ \E p \in Proc : RestoreAccess(p)
    \/ \E p \in Proc : RestoreMkdir(p)
    \/ \E p \in Proc : RestoreProbe(p)
    \/ \E p \in Proc : RestoreRename(p)
    \/ \E p \in Proc : RestoreSave(p)
    \/ Return

RestoreRaceSpec == Init /\ [][RestoreRaceNext]_vars

----------------------------------------------------------------------------
(* The quarantine store with an index record that can be damaged: between  *)
(* two calls the record may be garbled, so that it no longer parses, or     *)
(* removed.  The calls are those of StoreSpec and the three reads.          *)

\* listQuarantine(), getEntry(entryId) and getTotalSize(): none writes.
ReadCall ==
    /\ last = Idle
    /\ calls < MaxStoreCalls
    /\ \E entryId \in 1..(nextId + 1) :
          last' = [op |-> "read", entryId |-> entryId,
                   list |-> listQuarantine(World),
                   entry |-> getEntry(World, entryId),
                   totalSize |-> getTotalSize(World),
                   before |-> World]
    /\ calls' = calls + 1
    /\ UNCHANGED <<platform, fs, indexFile, nextId, osTrash, optSkip, now, running>>

\* The index record is garbled (JSON.parse will throw on it) or removed.
Damage ==
    /\ last = Idle
    /\ indexFile.state = "ok"
    /\ \/ indexFile' = [indexFile EXCEPT !.state = "corrupt"]
       \/ indexFile' = [state |-> "absent", entries |-> NoEntries]
    /\ UNCHANGED <<platform, fs, nextId, osTrash, optSkip, now, calls, running, last>>

DamagedNext ==
    \/ QuarantineCall
    \/ RestoreCall
    \/ CleanupCall
    \/ ClearAllCall
    \/ ReadCall
    \/ Damage
    \/ Tick
    \/ Return

DamagedSpec == Init /\ [][DamagedNext]_vars

----------------------------------------------------------------------------
(* LinuxTrash.moveToTrash one mechanism at a time.  The call in flight is  *)
(* running["p1"]: the mechanism it is to try next, its arguments and the   *)
(* attempts it has made so far, each with what the mechanism answered.     *)

\* The mechanism LinuxTrash.moveToTrash turns to after mechanism mech has
\* answered ok, or "return".
nextMechanismSkipping(mech, ok) ==
    IF ok THEN "return" ELSE IF mech = "gio" THEN "manual" ELSE "return"

nextMechanism(mech, ok) ==
    IF ok THEN "return"
    ELSE IF mech = "gio" THEN "cli"
    ELSE IF mech = "cli" THEN "manual"
    ELSE "return"

\* The mechanism mech run on the paths: [ok, w].
mechanism(w, mech, paths, gio, cli) ==
    IF mech = "gio" THEN tryGioTrash(w, paths, gio)
    ELSE IF mech = "cli" THEN tryTrashCli(w, paths, cli)
    ELSE manualMoveToTrash(w, paths)

\* moveToTrash(paths) is called: it turns to gio trash first.
EnterMoveToTrash ==
    /\ last = Idle
    /\ running["p1"] = NotRunning
    /\ calls < MaxTrashCalls
    /\ \E paths \in ListsOf(TrashPaths, MaxPaths) : \E gio, cli \in BOOLEAN :
          running' = [running EXCEPT !["p1"] =
                        [pc |-> "gio", paths |-> paths, gio |-> gio, cli |-> cli,
                         attempts |-> <<>>, before |-> World]]
    /\ calls' = calls + 1
    /\ UNCHANGED <<platform, fs, indexFile, nextId, osTrash, optSkip, now, last>>

\* The call runs the mechanism it has turned to, then returns or turns to
\* the next one.
Attempt ==
    /\ running["p1"] # NotRunning
    /\ LET c == running["p1"]
           r == mechanism(World, c.pc, c.paths, c.gio, c.cli)
           made == Append(c.attempts, [mech |-> c.pc, ok |-> r.ok])
       IN  /\ SetWorld(r.w)
           /\ IF nextMechanism(c.pc, r.ok) = "return"
              THEN /\ running' = [running EXCEPT !["p1"] = NotRunning]
                   /\ last' = [op |-> "moveToTrash", paths |-> c.paths, gio |-> c.gio,
                               cli |-> c.cli, ok |-> r.ok, attempts |-> made,
                               before |-> c.before]
              ELSE /\ running' = [running EXCEPT !["p1"] =
                                    [c EXCEPT !.pc = nextMechanism(c.pc, r.ok),
                                              !.attempts = made]]
                   /\ UNCHANGED last
    /\ UNCHANGED <<optSkip, calls>>

MechanismNext == EnterMoveToTrash \/ Attempt \/ Return

MechanismSpec == Init /\ [][MechanismNext]_vars

----------------------------------------------------------------------------
(* Properties of the orchestrator and of the confirmation protocol, as     *)
(* invariants of Spec: each reads the call in `last`, the world before it  *)
(* and the world it left.                                                  *)

\* The paths validation classes as system paths in the world before the call.
SystemPathsOf(l) == validatePaths(l.before.platform, l.before.fs, l.paths).systemPaths

\* The paths a call handed to the trash provider or to the quarantine store.
HandedPaths(l) == UNION {Range(l.handed[i].paths) : i \in 1..Len(l.handed)}

\* The call in `last` handed nothing on and left the filesystem, the trash
\* and the quarantine index as they were.
Untouched ==
    /\ last.handed = <<>>
    /\ fs = last.before.fs
    /\ indexFile = last.before.indexFile
    /\ osTrash = last.before.osTrash

\* C1: for any input list and any combination of options, safeDelete and
\* safeDeleteWithConfirmation hand no path that validation classes as a
\* system path to the trash provider or to the quarantine store, and such a
\* path is after the call where and what it was before it.
SystemPathsNeverMoved ==
    last # Idle =>
        \A p \in Range(SystemPathsOf(last)) :
            /\ p \notin HandedPaths(last)
            /\ resolve(p) \in DOMAIN fs
            /\ fs[resolve(p)] = last.before.fs[resolve(p)]
            /\ resolve(p) \notin osTrash

\* A call that went on past a system path and moved the rest of its list.
SystemPathSkipped ==
    /\ last # Idle
    /\ last.op = "safeDelete"
    /\ last.validation.systemPaths # <<>>
    /\ last.handed # <<>>
    /\ last.result.processedPaths # <<>>

\* C3: a call with dryRun = true leaves every input path in place and the
\* trash, the quarantine directory and the quarantine index unchanged, for
\* valid and invalid paths alike and for any value of the other options.
DryRunChangesNothing ==
    (last # Idle /\ Field(last.options, "dryRun", FALSE)) => Untouched

\* A dry run that reported valid paths of a list that holds a system path.
DryRunReported ==
    /\ last # Idle
    /\ last.op = "safeDelete"
    /\ Field(last.options, "dryRun", FALSE)
    /\ last.result.success
    /\ last.result.processedPaths # <<>>
    /\ last.validation.systemPaths # <<>>

\* The call in `last` reached the routing step of safeDelete: it was no dry
\* run, validation did not stop it, and a path was left after the filter.
Routed ==
    /\ ~Field(last.options, "dryRun", FALSE)
    /\ SystemPathsOf(last) = <<>> \/ Field(last.options, "skipConfirmation", FALSE)
    /\ Range(last.paths) \ Range(SystemPathsOf(last)) # {}

\* C6: with useTrash set (the default) and a supported provider, safeDelete
\* hands the paths to the trash first, and when the trash call throws or
\* returns false it hands the same paths to the quarantine store and
\* reports the method quarantine; with useTrash false the trash is not
\* called and the paths go straight to the quarantine store.
TrashFirstThenQuarantine ==
    (last # Idle /\ last.op = "safeDelete" /\ Routed) =>
        /\ last.handed # <<>>
        /\ IF Field(last.options, "useTrash", TRUE) /\ isSupported(last.before)
           THEN /\ last.handed[1].to = "trash"
                /\ LET t == TrashManager_moveToTrash(last.before, last.handed[1].paths,
                                                     last.env.gio, last.env.cli)
                   IN IF t.threw \/ ~t.ok
                      THEN /\ last.handed = <<ToTrash(last.handed[1].paths),
                                              ToQuarantine(last.handed[1].paths)>>
                           /\ last.result.method = "quarantine"
                      ELSE /\ Len(last.handed) = 1
                           /\ last.result.method = "trash"
           ELSE /\ Len(last.handed) = 1
                /\ last.handed[1].to = "quarantine"
                /\ last.result.method = "quarantine"
                /\ osTrash = last.before.osTrash

\* The trash refused a list and the quarantine store took a path of it.
FellBackToQuarantine ==
    /\ last # Idle
    /\ last.op = "safeDelete"
    /\ Len(last.handed) = 2
    /\ last.result.method = "quarantine"
    /\ last.result.processedPaths # <<>>

\* C7: when validation finds a system path and skipConfirmation is not set,
\* safeDelete fails with an error that names the blockers and moves
\* nothing; when skipConfirmation is set it goes on with the other paths
\* only, and no system path is among processedPaths.
AbortsOnSystemPathUnlessSkipped ==
    (last # Idle /\ last.op = "safeDelete" /\ SystemPathsOf(last) # <<>>) =>
        IF ~Field(last.options, "skipConfirmation", FALSE)
        THEN /\ ~last.result.success
             /\ \E i \in 1..Len(last.result.errors) :
                    LET detail == last.result.errors[i].detail
                    IN {detail[j].path : j \in 1..Len(detail)} = Range(SystemPathsOf(last))
             /\ last.result.processedPaths = <<>>
             /\ Untouched
        ELSE /\ Range(last.result.processedPaths) \cap Range(SystemPathsOf(last)) = {}
             /\ HandedPaths(last) \subseteq Range(last.paths) \ Range(SystemPathsOf(last))

\* A call stopped by a system path in a list that also holds a deletable file.
AbortedOnSystemPath ==
    /\ last # Idle
    /\ last.op = "safeDelete"
    /\ last.validation.systemPaths # <<>>
    /\ ~Field(last.options, "skipConfirmation", FALSE)
    /\ pA \in Range(last.paths)
    /\ ~last.result.success

\* C8: when the confirmation callback answers with a negative decision,
\* safeDeleteWithConfirmation returns a failed result whose error is
\* 'Operation cancelled by user' and changes nothing.
CancelChangesNothing ==
    (/\ last # Idle
     /\ last.op = "safeDeleteWithConfirmation"
     /\ last.callbackCalls = 1
     /\ ~last.decision.confirmed) =>
        /\ ~last.result.success
        /\ last.result.errors = <<Error("Operation cancelled by user", <<>>)>>
        /\ last.result.processedPaths = <<>>
        /\ Untouched

\* The callback declined the deletion of an existing file.
CancelledByUser ==
    /\ last # Idle
    /\ last.op = "safeDeleteWithConfirmation"
    /\ last.callbackCalls = 1
    /\ ~last.decision.confirmed
    /\ pA \in Range(last.paths)
    /\ ~last.result.success

\* The call in `last` wants a confirmation: interactive mode, a callback
\* supplied, skipConfirmation not set.
WantsConfirmation ==
    /\ Field(last.options, "interactive", FALSE)
    /\ last.hasCallback
    /\ ~Field(last.options, "skipConfirmation", FALSE)

\* The number of items the prompt of the call in `last` counts.
PromptItems == generateConfirmationPrompt(last.before, last.paths, last.options).itemCount

\* C9: the callback is called at most once in a call, and only when
\* interactive is set, a callback was supplied, skipConfirmation is not set
\* and the prompt counts an item; when the prompt counts none the call
\* fails with 'No valid items to delete', the callback is not called and
\* nothing moves.
AsksOnlyWhenNeeded ==
    (last # Idle /\ last.op = "safeDeleteWithConfirmation") =>
        /\ last.callbackCalls \in {0, 1}
        /\ last.callbackCalls = 1 => (WantsConfirmation /\ PromptItems >= 1)
        /\ (WantsConfirmation /\ PromptItems = 0) =>
               /\ last.callbackCalls = 0
               /\ ~last.result.success
               /\ last.result.errors = <<Error("No valid items to delete", <<>>)>>
               /\ Untouched

\* A call that wanted a confirmation for a list with nothing to delete.
NothingToConfirm ==
    /\ last # Idle
    /\ last.op = "safeDeleteWithConfirmation"
    /\ WantsConfirmation
    /\ last.paths # <<>>
    /\ PromptItems = 0
    /\ last.callbackCalls = 0

\* C10: when the callback confirms with skipFuture, the options object of
\* the call holds skipConfirmation = true afterwards, and a later call with
\* that object does not call the callback; another options object keeps
\* its own flag, and a call with it is asked as before.
SkipFutureRemembered ==
    (last # Idle /\ last.op = "safeDeleteWithConfirmation") =>
        /\ (last.callbackCalls = 1 /\ last.decision.confirmed /\ last.decision.skipFuture)
               => optSkip[last.ref]
        /\ last.heldBefore[last.ref] => (last.callbackCalls = 0 /\ optSkip[last.ref])
        /\ \A o \in OptRef \ {last.ref} : optSkip[o] = last.heldBefore[o]
        /\ (/\ ~last.heldBefore[last.ref]
            /\ Field(last.options, "interactive", FALSE)
            /\ last.hasCallback
            /\ PromptItems >= 1) => last.callbackCalls = 1

\* A call that shares an options object holding the remembered flag deletes
\* a file without asking, while the other object holds no flag.
SkippedByRememberedFlag ==
    /\ last # Idle
    /\ last.op = "safeDeleteWithConfirmation"
    /\ last.heldBefore[last.ref]
    /\ \E o \in OptRef : ~optSkip[o]
    /\ Field(last.options, "interactive", FALSE)
    /\ last.hasCallback
    /\ last.callbackCalls = 0
    /\ last.result.processedPaths # <<>>

----------------------------------------------------------------------------
(* Properties of the validator, stated of ValidatorSpec. *)

\* The resolved path r lies at or below a protected root of the platform.
UnderSystemRoot(pf, r) == \E root \in initializeSystemPaths(pf) : Under(r, root)

\* C2: validatePaths marks every path of its input that exists and resolves
\* under a protected system root as blocking: the path is in systemPaths, a
\* blocker is recorded for it, and isValid is false.
SystemRootsBlocked ==
    (last # Idle /\ last.op = "validatePaths") =>
        \A i \in 1..Len(last.paths) :
            (Exists(fs, last.paths[i]) /\ UnderSystemRoot(platform, resolve(last.paths[i]))) =>
                /\ last.paths[i] \in Range(last.validation.systemPaths)
                /\ Warning("System path detected", last.paths[i])
                       \in Range(last.validation.blockers)
                /\ ~last.validation.isValid

----------------------------------------------------------------------------
(* Properties of the quarantine store, stated of StoreSpec. *)

\* The place restore is to put an object that came from originalPath on the
\* filesystem f: the original path when it is free, else the first free
\* path that has _restored_N between the name and its last extension.
RECURSIVE RestoredVariant(_, _, _)
RestoredVariant(f, originalPath, n) ==
    LET name == basename(originalPath)
        dot == LastIndexOf(name, ".")
        stem == IF dot > 1 THEN SubSeq(name, 1, dot - 1) ELSE name
        ext == IF dot > 1 THEN SubSeq(name, dot, Len(name)) ELSE <<>>
        variant == join(dirname(originalPath),
                        stem \o <<"_", "r", "e", "s", "t", "o", "r", "e", "d", "_">> \o NumStr(n) \o ext)
    IN  IF ~Exists(f, variant) THEN variant
        ELSE RestoredVariant(f, originalPath, n + 1)

RestorePlace(f, originalPath) ==
    IF ~Exists(f, originalPath) THEN resolve(originalPath)
    ELSE RestoredVariant(f, originalPath, 1)

\* C4: restore(id) of an entry that quarantine made, whose object is in the
\* quarantine directory, returns true and puts the object at its original
\* path, or at the _restored_N variant of that path when the original path
\* is occupied; afterwards listQuarantine() does not list the id.
RestoreReturnsTheObject ==
    (/\ last # Idle
     /\ last.op = "restore"
     /\ last.entryId \in DOMAIN loadIndex(last.before)
     /\ Exists(last.before.fs, loadIndex(last.before)[last.entryId].quarantinePath)) =>
        LET entry == loadIndex(last.before)[last.entryId]
            place == RestorePlace(last.before.fs, entry.originalPath)
        IN  /\ last.ok
            /\ place \in DOMAIN fs
            /\ fs[place] = last.before.fs[resolve(entry.quarantinePath)]
            /\ last.entryId \notin DOMAIN listQuarantine(World)

\* C5: after any sequence of quarantine, restore, cleanup and clearAll,
\* the quarantinePath of every entry of the index names an object that is
\* present below the quarantine directory.
IndexEntriesHaveObjects ==
    \A i \in DOMAIN loadIndex(World) :
        /\ Exists(fs, loadIndex(World)[i].quarantinePath)
        /\ Under(resolve(loadIndex(World)[i].quarantinePath), quarantineDir)
        /\ resolve(loadIndex(World)[i].quarantinePath) # quarantineDir

\* C11: restore(id) of an id that is not in the index, or of an entry whose
\* quarantined object no longer exists, returns false and leaves the
\* quarantine index and the filesystem as they were.
RestoreOfMissingChangesNothing ==
    (/\ last # Idle
     /\ last.op = "restore"
     /\ \/ last.entryId \notin DOMAIN loadIndex(last.before)
        \/ ~Exists(last.before.fs, loadIndex(last.before)[last.entryId].quarantinePath)) =>
        /\ ~last.ok
        /\ fs = last.before.fs
        /\ indexFile = last.before.indexFile
        /\ nextId = last.before.nextId

\* A restore of an entry that is in the index while its object is gone.
RestoreOfLostObject ==
    /\ last # Idle
    /\ last.op = "restore"
    /\ last.entryId \in DOMAIN loadIndex(last.before)
    /\ ~Exists(last.before.fs, loadIndex(last.before)[last.entryId].quarantinePath)
    /\ ~last.ok

\* The entries of the index of the world w that are older than the cutoff
\* of cleanup(retentionDays).
OlderThan(w, retentionDays) ==
    {i \in DOMAIN loadIndex(w) : loadIndex(w)[i].movedAt < w.now - retentionDays}

\* C12: cleanup(retentionDays) deletes the objects of exactly the entries
\* whose movedAt is older than now minus retentionDays and removes those
\* entries from the index, leaves every other entry and its object as they
\* were, and returns the number of entries it removed.
CleanupRemovesExactlyTheOld ==
    (last # Idle /\ last.op = "cleanup") =>
        LET index == loadIndex(last.before)
            old == OlderThan(last.before, last.retentionDays)
        IN  /\ ~last.threw
            /\ last.count = Cardinality(old)
            /\ DOMAIN loadIndex(World) = DOMAIN index \ old
            /\ \A i \in old : ~Exists(fs, index[i].quarantinePath)
            /\ \A i \in DOMAIN index \ old :
                  /\ loadIndex(World)[i] = index[i]
                  /\ Exists(fs, index[i].quarantinePath)
                        = Exists(last.before.fs, index[i].quarantinePath)
                  /\ Exists(fs, index[i].quarantinePath) =>
                        fs[resolve(index[i].quarantinePath)]
                            = last.before.fs[resolve(index[i].quarantinePath)]

\* A cleanup that removed an old entry and kept a younger one with its object.
CleanupKeptTheYoung ==
    /\ last # Idle
    /\ last.op = "cleanup"
    /\ last.count = 1
    /\ \E i \in DOMAIN loadIndex(World) : Exists(fs, loadIndex(World)[i].quarantinePath)

\* C13: clearAll() deletes every quarantined object, leaves the index
\* empty and returns the number of entries it cleared; getTotalSize() is
\* the sum of the sizes of the entries of the index, which is 27 once the
\* files of 13 and 14 bytes have been quarantined from the initial
\* filesystem, and listQuarantine() is empty after clearAll().
ClearAllEmptiesTheStore ==
    /\ (/\ last # Idle
        /\ last.op = "quarantine"
        /\ last.before.fs = InitialFs
        /\ last.before.indexFile.state = "absent"
        /\ Range(last.paths) = {pA, pF}) =>
           /\ Cardinality(DOMAIN listQuarantine(World)) = 2
           /\ getTotalSize(World) = 27
    /\ (last # Idle /\ last.op = "clearAll") =>
           /\ ~last.threw
           /\ last.count = Cardinality(DOMAIN listQuarantine(last.before))
           /\ getTotalSize(last.before) = 27 /\ Cardinality(DOMAIN listQuarantine(last.before)) = 2
                 => last.count = 2
           /\ \A i \in DOMAIN listQuarantine(last.before) :
                 ~Exists(fs, listQuarantine(last.before)[i].quarantinePath)
           /\ listQuarantine(World) = NoEntries
           /\ getTotalSize(World) = 0

----------------------------------------------------------------------------
(* Properties of the trash provider, stated of TrashSpec. *)

\* The call in `last` took the path p away from where it was.
Trashed(p) == Exists(last.before.fs, p) /\ ~Exists(fs, p)

\* C14: in moveToTrash the failure of one path does not end the batch:
\* every path of the batch is attempted, so every path of the batch that
\* exists is in the trash after the call, whatever happened to the others.
EveryPathAttempted ==
    (last # Idle /\ last.op = "moveToTrash") =>
        \A i \in 1..Len(last.paths) :
            Exists(last.before.fs, last.paths[i]) => Trashed(last.paths[i])

\* C15: moveToTrash returns false only if no mechanism succeeded for any
\* path of the batch: when a path of the batch was moved to the trash the
\* call returns true.
TrueWhenSomePathTrashed ==
    (last # Idle /\ last.op = "moveToTrash") =>
        ((\E i \in 1..Len(last.paths) : Trashed(last.paths[i])) => last.ok)

----------------------------------------------------------------------------
(* Properties of concurrent calls of quarantine, stated of RaceSpec. *)

\* The entries the index held before the store in `last` and does not hold
\* after it.
LostEntries ==
    {i \in DOMAIN loadIndex(last.before) : i \notin DOMAIN loadIndex(World)}

\* C16: two calls that load, change and store the index of one root can
\* interleave so that one overwrites the update of the other.  A call
\* stores the index it loaded with its own entries added, whatever has
\* been stored since it loaded; so its store drops an entry exactly when
\* another call stored that entry in between, and it drops none when no
\* call stored in between.
StoreOverwritesWhatItDidNotLoad ==
    (last # Idle /\ last.op = "quarantineStored" /\ ~last.threw) =>
        /\ DOMAIN loadIndex(World)
              = DOMAIN last.loaded \cup {last.entries[i].id : i \in 1..Len(last.entries)}
        /\ \A i \in 1..Len(last.entries) : loadIndex(World)[last.entries[i].id] = last.entries[i]
        /\ LostEntries = DOMAIN loadIndex(last.before) \ DOMAIN last.loaded
        /\ loadIndex(last.before) = last.loaded => LostEntries = {}

\* A lost update: the store of one call has dropped the entry of another,
\* whose object sits in the quarantine directory.
LostUpdate ==
    /\ last # Idle
    /\ last.op = "quarantineStored"
    /\ \E i \in LostEntries :
          /\ Exists(fs, loadIndex(last.before)[i].quarantinePath)
          /\ Under(resolve(loadIndex(last.before)[i].quarantinePath), quarantineDir)

----------------------------------------------------------------------------
(* Further properties of the orchestrator, stated of Spec. *)

\* The call in `last` has collected the path p: it is in failedPaths, or an
\* error of the result names it.
Collected(p) ==
    \/ p \in Range(last.result.failedPaths)
    \/ \E i \in 1..Len(last.result.errors) : p \in Range(last.result.errors[i].detail)

\* C17: every input path that safeDelete could not size or could not move
\* is collected in the result, in failedPaths or in an error, and the
\* other paths of the batch are still processed: after a call that reached
\* the routing step, every path of the input that the call did not take
\* from its place is collected.
UnmovedPathsCollected ==
    (last # Idle /\ last.op = "safeDelete" /\ Routed) =>
        \A i \in 1..Len(last.paths) :
            LET p == last.paths[i]
            IN  IF Exists(last.before.fs, p) /\ ~Exists(fs, p)
                THEN TRUE
                ELSE Collected(p)

----------------------------------------------------------------------------
(* Further properties of the quarantine store, stated of StoreSpec. *)

\* C18: no operation of the store lets a fault escape: quarantine, restore,
\* cleanup and clearAll return a result and do not raise, whatever fails
\* on a path, on making the quarantine directory or on writing the index.
NoFaultEscapes ==
    (last # Idle /\ last.op \in {"quarantine", "cleanup", "clearAll"}) => ~last.threw

----------------------------------------------------------------------------
(* Properties of the orchestrator on a device that may refuse the index    *)
(* write, stated of FaultySpec.                                            *)

\* C19: the result of safeDelete reports the system paths that validation
\* filtered out as failedPaths whatever the routing came to: after the
\* trash took the paths, after a fallback to quarantine, after a failure
\* of the quarantine store and after a dry run.
FailedPathsAreSystemPaths ==
    (/\ last # Idle
     /\ last.op = "safeDelete"
     /\ last.paths # <<>>
     /\ SystemPathsOf(last) = <<>> \/ Field(last.options, "skipConfirmation", FALSE)) =>
        last.result.failedPaths = SystemPathsOf(last)

\* A call whose quarantine store failed on a list that held a system path.
QuarantineFailedPastSystemPath ==
    /\ last # Idle
    /\ last.op = "safeDelete"
    /\ last.validation.systemPaths # <<>>
    /\ ~last.result.success
    /\ \E i \in 1..Len(last.result.errors) :
          last.result.errors[i].msg = "Quarantine operation failed"
    /\ last.result.failedPaths = last.validation.systemPaths

----------------------------------------------------------------------------
(* Properties of the size a dry run reports, stated of Spec.               *)

\* The sum of the sizes, in the file system f, of the paths of s that are
\* not in drop.
RECURSIVE SizeOfOthers(_, _, _)
SizeOfOthers(f, s, drop) ==
    IF s = <<>> THEN 0
    ELSE (IF Head(s) \in drop THEN 0 ELSE calculateSize(f, Head(s)))
         + SizeOfOthers(f, Tail(s), drop)

\* C20: a call of safeDelete with dryRun = true reports a totalSize equal
\* to the sum of the sizes of the input paths that are not system paths,
\* for every input list, whether validation passes it or not.
DryRunSizesTheValidSubset ==
    (/\ last # Idle
     /\ last.op = "safeDelete"
     /\ Field(last.options, "dryRun", FALSE)) =>
        last.result.totalSize =
            SizeOfOthers(last.before.fs, last.paths, Range(SystemPathsOf(last)))

\* C20, amended: the same, for the calls that validation lets through: a
\* list without a system path, or any list when skipConfirmation is set. A
\* dry run of a list that holds a system path, without skipConfirmation,
\* stops at validation and reports a totalSize of 0.
DryRunSizesWhatValidationLetsThrough ==
    /\ (/\ last # Idle
        /\ last.op = "safeDelete"
        /\ Field(last.options, "dryRun", FALSE)
        /\ SystemPathsOf(last) = <<>> \/ Field(last.options, "skipConfirmation", FALSE)) =>
           last.result.totalSize =
               SizeOfOthers(last.before.fs, last.paths, Range(SystemPathsOf(last)))
    /\ (/\ last # Idle
        /\ last.op = "safeDelete"
        /\ Field(last.options, "dryRun", FALSE)
        /\ SystemPathsOf(last) # <<>>
        /\ ~Field(last.options, "skipConfirmation", FALSE)) =>
           last.result.totalSize = 0

\* A dry run that sized the valid path of a list that holds a system path.
DryRunSizedPastSystemPath ==
    /\ last # Idle
    /\ last.op = "safeDelete"
    /\ Field(last.options, "dryRun", FALSE)
    /\ Field(last.options, "skipConfirmation", FALSE)
    /\ last.validation.systemPaths # <<>>
    /\ last.result.totalSize > 0

----------------------------------------------------------------------------
(* Properties of the store whose index record can be damaged, stated of    *)
(* DamagedSpec.                                                            *)

\* The world the call in `last` left is the world it found.
WorldKept ==
    /\ fs = last.before.fs
    /\ indexFile = last.before.indexFile
    /\ osTrash = last.before.osTrash

\* The ids of a list of entries.
IdsOf(entries) == {entries[i].id : i \in 1..Len(entries)}

\* C21: called on an index record that is absent or does not parse, the
\* reads answer as for an empty index (no entries, null, size 0), restore
\* returns false and cleanup returns 0, both changing nothing, and
\* quarantine does not throw and leaves an index of exactly the entries it
\* made.
DamagedIndexReadsAsEmpty ==
    (last # Idle /\ last.before.indexFile.state # "ok") =>
        /\ last.op = "read" =>
              /\ last.list = NoEntries
              /\ last.entry = Null
              /\ last.totalSize = 0
        /\ last.op = "restore" => ~last.ok /\ WorldKept
        /\ last.op = "cleanup" => ~last.threw /\ last.count = 0 /\ WorldKept
        /\ (last.op = "quarantine" /\ last.paths # <<>>) =>
              /\ ~last.threw
              /\ indexFile.state = "ok"
              /\ DOMAIN indexFile.entries = IdsOf(last.entries)

\* A read of a garbled record that held an entry.
ReadOfGarbledRecord ==
    /\ last # Idle
    /\ last.op = "read"
    /\ last.before.indexFile.state = "corrupt"
    /\ last.before.indexFile.entries # NoEntries
    /\ last.entryId \in DOMAIN last.before.indexFile.entries
    /\ last.entry = Null

----------------------------------------------------------------------------
(* Further properties of the validator, stated of ValidatorSpec.           *)

\* The result of the call in `last` holds a warning of message m for path p.
Warned(m, p) ==
    \E i \in 1..Len(last.validation.warnings) :
        last.validation.warnings[i] = [msg |-> m, path |-> p]

\* The path p is a directory with more than 1000 immediate children.
HoldsManyChildren(p) ==
    /\ resolve(p) \in DOMAIN fs
    /\ fs[resolve(p)].type = "directory"
    /\ Cardinality({k \in DOMAIN fs : k # resolve(p) /\ dirname(k) = resolve(p)}) > 1000

\* C22: validatePaths returns isValid = false exactly when it classed a
\* path as a system path, with one blocker for each; a path that does not
\* exist is no system path and has its warning, and a path that is no
\* system path has a warning when it is a directory of a critical name, a
\* directory of more than 1000 children or a file in use.
InvalidIffSystemPath ==
    (last # Idle /\ last.op = "validatePaths") =>
        /\ last.validation.isValid = (last.validation.systemPaths = <<>>)
        /\ Len(last.validation.blockers) = Len(last.validation.systemPaths)
        /\ Range(last.validation.systemPaths) \subseteq Range(last.paths)
        /\ \A p \in Range(last.paths) :
              /\ resolve(p) \notin DOMAIN fs =>
                    /\ p \notin Range(last.validation.systemPaths)
                    /\ Warned("Path does not exist", p)
              /\ (resolve(p) \in DOMAIN fs /\ p \notin Range(last.validation.systemPaths)) =>
                    /\ p = pGit => Warned("Critical directory detected", p)
                    /\ HoldsManyChildren(p) => Warned("Large directory detected", p)
                    /\ (fs[resolve(p)].type = "file" /\ fs[resolve(p)].busy)
                          => Warned("File may be in use", p)

\* A valid result for a list of a missing path, a critical directory and a
\* large directory, each with its warning.
ValidWithThreeWarnings ==
    /\ last # Idle
    /\ last.op = "validatePaths"
    /\ Range(last.paths) = {pNone, pGit, pBig}
    /\ last.validation.isValid
    /\ Len(last.validation.warnings) = 3

----------------------------------------------------------------------------
(* Properties of the orchestrator on a platform without a trash provider,  *)
(* stated of PlatformSpec.                                                 *)

\* C23: on a platform where native trash is not supported the orchestrator
\* is constructed and safeDelete goes straight to the quarantine store: it
\* hands nothing to the trash provider and reports method = quarantine.
UnsupportedGoesToQuarantine ==
    (last # Idle /\ ~isSupported(last.before)) =>
        /\ last.op = "safeDelete"
        /\ last.result.method = "quarantine"
        /\ \A i \in 1..Len(last.handed) : last.handed[i].to = "quarantine"

----------------------------------------------------------------------------
(* Properties of the order of the trash mechanisms, stated of              *)
(* MechanismSpec.                                                          *)

MechanismOrder == <<"gio", "cli", "manual">>

\* The attempts are the first mechanisms of the order, in order, and each
\* but the last one failed.
InOrder(attempts) ==
    /\ Len(attempts) <= 3
    /\ \A i \in 1..Len(attempts) :
          /\ attempts[i].mech = MechanismOrder[i]
          /\ i < Len(attempts) => ~attempts[i].ok

\* C24: moveToTrash tries gio trash, then trash-put, then the manual move:
\* a mechanism is tried only after every earlier one failed, the call ends
\* with the first mechanism that succeeds and returns true then, and it
\* returns false only after all three failed.  gio trash is always the
\* first, and where gio is installed and every path exists it is the only
\* one.
MechanismsTriedInOrder ==
    /\ running["p1"] # NotRunning => InOrder(running["p1"].attempts)
    /\ (last # Idle /\ last.op = "moveToTrash") =>
          /\ InOrder(last.attempts)
          /\ Len(last.attempts) >= 1
          /\ last.ok = last.attempts[Len(last.attempts)].ok
          /\ ~last.ok => Len(last.attempts) = 3
          /\ (~last.gio /\ last.paths # <<>>) => Len(last.attempts) >= 2
          /\ (~last.gio /\ ~last.cli /\ last.paths # <<>>) => Len(last.attempts) = 3
          /\ (last.gio /\ \A i \in 1..Len(last.paths) : Exists(last.before.fs, last.paths[i]))
                => Len(last.attempts) = 1

\* A call that ended with trash-put after gio trash had failed.
EndedWithTheSecondMechanism ==
    /\ last # Idle
    /\ last.op = "moveToTrash"
    /\ last.ok
    /\ last.attempts = <<[mech |-> "gio", ok |-> FALSE], [mech |-> "cli", ok |-> TRUE]>>

----------------------------------------------------------------------------
(* Properties of the name restore gives an object whose original path is   *)
(* occupied, stated of StoreSpec.                                          *)

\* C25: when the original path of the entry is occupied, restore moves the
\* object into the parent directory of the original path, under the
\* original name with _restored_N before its extension, N the smallest
\* positive number whose name is free; so for every original path, one in a
\* directory whose name holds a dot included.
RestoredNameKeepsTheDirectory ==
    (/\ last # Idle
     /\ last.op = "restore"
     /\ last.entryId \in DOMAIN loadIndex(last.before)
     /\ Exists(last.before.fs, loadIndex(last.before)[last.entryId].quarantinePath)
     /\ Exists(last.before.fs, loadIndex(last.before)[last.entryId].originalPath)) =>
        LET entry == loadIndex(last.before)[last.entryId]
        IN  /\ last.ok
            /\ resolve(last.restorePath) = RestoredVariant(last.before.fs, entry.originalPath, 1)
            /\ dirname(resolve(last.restorePath)) = dirname(resolve(entry.originalPath))
            /\ Exists(fs, last.restorePath)
            /\ ~Exists(fs, entry.quarantinePath)

----------------------------------------------------------------------------
(* Properties of concurrent calls of restore, stated of RestoreRaceSpec.   *)

\* C26: restore never overwrites an object: the rename that moves the
\* quarantined object goes to a path where nothing is at the moment of the
\* move, also while another restore of an entry of the same original path
\* is in flight.
RestoreNeverOverwrites ==
    (last # Idle /\ last.op = "restoreRenamed" /\ last.moved) =>
        ~Exists(last.before.fs, last.restorePath)

----------------------------------------------------------------------------
(* Properties of what the orchestrator reports as processed, stated of     *)
(* Spec.                                                                   *)

\* The call in `last` made an index entry for the path p.
QuarantinedByCall(p) ==
    \E i \in DOMAIN loadIndex(World) \ DOMAIN loadIndex(last.before) :
        loadIndex(World)[i].originalPath = p

\* C27: after a call of safeDelete that is no dry run, every input path
\* that is no longer at its place is in processedPaths, and every path of
\* processedPaths is gone from its place, into the quarantine store when
\* the result says method = quarantine and not into it when the result
\* says method = trash; so also when the trash provider moved some paths
\* before it reported failure.
ProcessedPathsAreTheMovedPaths ==
    (/\ last # Idle
     /\ last.op = "safeDelete"
     /\ ~Field(last.options, "dryRun", FALSE)) =>
        /\ \A i \in 1..Len(last.paths) :
              (Exists(last.before.fs, last.paths[i]) /\ ~Exists(fs, last.paths[i]))
                  => last.paths[i] \in Range(last.result.processedPaths)
        /\ \A i \in 1..Len(last.result.processedPaths) :
              LET p == last.result.processedPaths[i]
              IN  /\ Exists(last.before.fs, p) /\ ~Exists(fs, p)
                  /\ QuarantinedByCall(p) = (last.result.method = "quarantine")

----------------------------------------------------------------------------
(* Properties of the deletion that follows a confirmation, stated of Spec. *)

\* C28: when the callback confirms a prompt that counts at least one valid
\* item for a list that holds system paths, the deletion that follows
\* takes every valid item from its place and leaves the system paths where
\* they are, with and without the skipFuture flag in the confirmation.
ConfirmedDeletionMovesValidItems ==
    (/\ last # Idle
     /\ last.op = "safeDeleteWithConfirmation"
     /\ last.callbackCalls = 1
     /\ last.decision.confirmed
     /\ PromptItems >= 1
     /\ SystemPathsOf(last) # <<>>
     /\ ~Field(last.options, "dryRun", FALSE)) =>
        \A i \in 1..Len(last.paths) :
            IF last.paths[i] \in Range(SystemPathsOf(last))
            THEN Exists(fs, last.paths[i])
            ELSE ~Exists(fs, last.paths[i])

----------------------------------------------------------------------------
(* Properties of the files of the manual trash, stated of TrashSpec.       *)

TrashInfoSuffix == <<".", "t", "r", "a", "s", "h", "i", "n", "f", "o">>

\* C29: every .trashinfo file in the info directory of the trash stands
\* for an object of the same name in its files directory, after any
\* sequence of moveToTrash calls: a move that fails leaves no such file.
EverySidecarHasItsObject ==
    \A k \in DOMAIN fs :
        (k # infoPath /\ dirname(k) = infoPath) =>
            \E o \in DOMAIN fs :
                /\ dirname(o) = filesPath
                /\ basename(k) = basename(o) \o TrashInfoSuffix

----------------------------------------------------------------------------
(* Properties of the entries a damaged index record held, stated of        *)
(* DamagedSpec.                                                            *)

\* The entries the record held when the call in `last` found it garbled.
HeldBefore == last.before.indexFile.entries

\* C30: once the index record does not parse, the next quarantine call
\* that takes paths, or the next clearAll, writes an index built from
\* empty over it: no entry the record held is listed any more or can be
\* restored, while the objects of those entries, unless the call was given
\* their paths, are still where the entries said.
DamagedIndexIsOverwritten ==
    (/\ last # Idle
     /\ last.before.indexFile.state = "corrupt"
     /\ \/ last.op = "quarantine" /\ last.paths # <<>>
        \/ last.op = "clearAll") =>
        /\ ~last.threw
        /\ indexFile.state = "ok"
        /\ \A i \in DOMAIN HeldBefore :
              /\ i \notin DOMAIN listQuarantine(World)
              /\ ~restore(World, i, FALSE).ok
              /\ (/\ Exists(last.before.fs, HeldBefore[i].quarantinePath)
                  /\ last.op = "quarantine" =>
                        resolve(HeldBefore[i].quarantinePath)
                            \notin {resolve(last.paths[j]) : j \in 1..Len(last.paths)}) =>
                    Exists(fs, HeldBefore[i].quarantinePath)

\* A quarantine call that found a garbled record of one entry and left the
\* entry's object in place, unlisted.
EntryLostObjectKept ==
    /\ last # Idle
    /\ last.op = "quarantine"
    /\ last.before.indexFile.state = "corrupt"
    /\ last.entries # <<>>
    /\ \E i \in DOMAIN HeldBefore :
          /\ Exists(fs, HeldBefore[i].quarantinePath)
          /\ i \notin DOMAIN listQuarantine(World)

====
